---- MODULE Spec2Model ----
(***************************************************************************)
(* A model of the paneru layout core: the LayoutStrip data structure       *)
(* (src/manager/layout.rs), the stack height bin-packing, the animation    *)
(* systems and the display / workspace / window bookkeeping of the ECS     *)
(* triggers and systems (src/ecs/*.rs).                                    *)
(***************************************************************************)
EXTENDS Integers, Sequences, FiniteSets, TLC

(***************************************************************************)
(* Bounds of the model.                                                    *)
(***************************************************************************)
\* Number of window entities the strip specification draws from.
NumWindows == 4

Windows == 1..NumWindows

\* Longest list of heights handed to binpack_heights.
MaxStack == 3

\* Largest current height, minimum height and total height (in height units).
MaxHeight == 4

MaxMin == 2

MaxTotal == 7

\* Window coordinates of the animation specification range over -MaxPos..MaxPos.
MaxPos == 1

\* Largest window width and height of the animation specification.
MaxSize == 2

\* The distance moved per tick is a multiple of 1/StepDen pixels, up to
\* MaxStepNum/StepDen.
StepDen == 2

MaxStepNum == 3

\* Time::elapsed_wrapped: the clock counts ticks modulo WrapPeriod.
WrapPeriod == 2

\* Number of LayoutStrip entities that can be alive at once.
MaxStrips == 3

\* Number of columns, over all strips, that can hold one window.
MaxOccurrences == 2

VARIABLES
    columns,    \* LayoutStrip.columns: the sequence of Column values
    last,       \* the last strip operation: its name, argument, result and pre-state
    bpIn,       \* the arguments of a binpack_heights call
    bpOut,      \* its result: done is FALSE before the call, some is FALSE for None
    frame,      \* Window.frame per window: min (x, y) and size (w, h)
    repositionMarker,   \* RepositionMarker per window: on, origin, display_id
    resizeMarker,       \* ResizeMarker per window: on, size, display_id
    displayIds, \* the ids of the Display entities in the world
    moveDelta,  \* move_delta of a tick, in 1/StepDen pixels
    elapsed,    \* Time: ticks elapsed, wrapped
    reshuffle,  \* the windows that carry a ReshuffleAroundMarker
    dock,       \* the DockPosition of the active display: kind and offset
    edgePadding,    \* Config::edge_padding: top, right, bottom, left
    clIn,       \* the arguments of a calculate_layout call: offset and viewport size
    clOut,      \* the frames it yields, by window
    os,         \* what WindowManagerApi reports: present displays, workspaces,
                \* active display, active space per display, workspace per window
    displays,   \* Display entities by id: TRUE with ActiveDisplayMarker
    strips,     \* LayoutStrip entities: id, parent display (0: none), columns,
                \* ActiveWorkspaceMarker, Timeout
    unmanaged,  \* Window entities: the Unmanaged component, "None" without it
    entities,   \* the ids of the Window entities of the event specification
    floating,   \* those that carry Unmanaged::Floating
    focused,    \* those that carry the FocusedMarker
    focusedId,  \* what Application::focused_window_id reports; 0 is Err
    channel,    \* Receiver<Event>: events the platform sent, oldest first
    messages,   \* Messages<Event>: events written and not yet dispatched
    strayFocus, \* the window ids held by StrayFocusEvent entities
    skipReshuffle,  \* Configuration::skip_reshuffle
    ffmFlag,    \* Configuration::ffm_flag; 0 is None
    minimizedIds,   \* the windows that carry Unmanaged::Minimized
    fullWidthMarker,    \* FullWidthMarker per window: the width of the window
                \* when the marker was inserted (the numerator of its
                \* width_ratio), 0 without the marker
    pumpTimeout,    \* the Local<u32> timeout of pump_events, in ms
    phase,      \* where the application is: "startup", "running", "exited"
                \* (the runner has seen AppExit) or "panicked"
    connected,   \* whether a Sender of the event channel still exists
    dragMarker,    \* the WindowDraggedMarker entity: the window it names (0: no
                \* marker) and what the timer of its Timeout has elapsed, in ticks
    launch,    \* a launched process: what the operating system knows of it,
              \* and its BProcess, Application and Window entities
    startup,   \* the startup: the Initializing resource, the existing processes
              \* and their applications, and the brute-force tasks
    queue     \* Messages<Event> as a command handler sees it: the commands
              \* written so far, how many of them the buffers have dropped,
              \* how many were written before this tick, the cursor of the
              \* handler's MessageReader, and how often each was executed

stripVars == <<columns, last>>

binVars == <<bpIn, bpOut>>

animVars == <<frame, repositionMarker, resizeMarker, displayIds, moveDelta, elapsed>>

layoutVars == <<reshuffle, dock, edgePadding, clIn, clOut>>

wmVars == <<os, displays, strips, unmanaged>>

eventVars == <<entities, floating, focused, focusedId, channel, messages,
               strayFocus, skipReshuffle, ffmFlag, minimizedIds>>

cmdVars == <<fullWidthMarker>>

pumpVars == <<pumpTimeout, phase, connected>>

dragVars == <<dragMarker>>

launchVars == <<launch>>

bootVars == <<startup>>

queueVars == <<queue>>

vars == <<columns, last, bpIn, bpOut,
          frame, repositionMarker, resizeMarker, displayIds, moveDelta, elapsed,
          reshuffle, dock, edgePadding, clIn, clOut,
          os, displays, strips, unmanaged,
          entities, floating, focused, focusedId, channel, messages,
          strayFocus, skipReshuffle, ffmFlag, minimizedIds, fullWidthMarker,
          pumpTimeout, phase, connected,
          dragMarker,
          launch,
          startup,
          queue>>

(***************************************************************************)
(* Column (layout.rs:13-18).  Single(w) and Stack(<<..>>) are records with *)
(* the variant tag and the windows top-first.                              *)
(***************************************************************************)
Single(e) == [stack |-> FALSE, ws |-> <<e>>]

StackOf(s) == [stack |-> TRUE, ws |-> s]

\* The element of a one-element set.  The({e(x) : x \in {v}}) is e(v) with
\* v evaluated once, as a `let` binding of the code is.
The(S) == CHOOSE x \in S : TRUE

\* The set of the elements of a sequence.
Range(s) == {s[i] : i \in 1..Len(s)}

\* Vec::retain(|id| *id != entity)
Retain(s, e) == SelectSeq(s, LAMBDA x : x /= e)

\* VecDeque::remove(index), index 1-based here; out of range leaves it alone.
RemoveAt(s, i) ==
    IF i \in 1..Len(s) THEN SubSeq(s, 1, i - 1) \o SubSeq(s, i + 1, Len(s)) ELSE s

\* VecDeque::insert(index, x): x ends up at (1-based) position i.
InsertBefore(s, i, x) == SubSeq(s, 1, i - 1) \o <<x>> \o SubSeq(s, i, Len(s))

\* Column::top
Top(col) == col.ws[1]

\* Column::position_of, 1-based; 0 stands for None.
PositionOf(col, e) ==
    IF e \in Range(col.ws)
    THEN CHOOSE i \in 1..Len(col.ws) :
            /\ col.ws[i] = e
            /\ \A j \in 1..(i - 1) : col.ws[j] /= e
    ELSE 0

\* Column::at_or_last with a 1-based stack position.
AtOrLast(col, pos) ==
    IF ~col.stack THEN col.ws[1]
    ELSE IF pos \in 1..Len(col.ws) THEN col.ws[pos]
    ELSE col.ws[Len(col.ws)]

\* LayoutStrip::index_of: 1-based index of the first column holding e;
\* 0 stands for Err(NotFound).
IndexOf(cols, e) ==
    IF \E i \in 1..Len(cols) : e \in Range(cols[i].ws)
    THEN CHOOSE i \in 1..Len(cols) :
            /\ e \in Range(cols[i].ws)
            /\ \A j \in 1..(i - 1) : e \notin Range(cols[j].ws)
    ELSE 0

\* The column of `cols` that holds w (w is in the strip).
ColumnOf(cols, w) == cols[IndexOf(cols, w)]

InStrip(cols, w) == IndexOf(cols, w) /= 0

\* Variants of the operations with one step of the code altered.
\* stack that leaves the left neighbour column in place next to the new Stack.
StackKeepsNeighbour(cols, e) ==
    LET index == IndexOf(cols, e) IN
    IF index = 1 THEN cols
    ELSE IF cols[index].stack THEN cols
    ELSE LET without == RemoveAt(cols, index)
             column  == without[index - 1]
         IN  InsertBefore(without, index - 1, StackOf(Append(column.ws, e)))

\* unstack that does not re-insert the remaining windows.
UnstackDropsPartners(cols, e) ==
    LET index == IndexOf(cols, e) IN
    IF ~cols[index].stack THEN cols
    ELSE InsertBefore(RemoveAt(cols, index), index, StackOf(<<e>>))

\* unstack that inserts the remaining windows first and the window second.
UnstackToTheLeft(cols, e) ==
    LET index == IndexOf(cols, e) IN
    IF ~cols[index].stack THEN cols
    ELSE LET rest     == RemoveAt(cols, index)
             kept     == Retain(cols[index].ws, e)
             newstack == IF Len(kept) = 1 THEN Single(kept[1]) ELSE StackOf(kept)
         IN  InsertBefore(InsertBefore(rest, index, newstack), index, Single(e))

\* remove that keeps a Stack of the one window left.
RemoveKeepsStack(cols, e) ==
    LET index == IndexOf(cols, e) IN
    IF index = 0 THEN cols
    ELSE LET col  == cols[index]
             rest == RemoveAt(cols, index)
             kept == Retain(col.ws, e)
         IN  IF ~col.stack THEN rest
             ELSE IF Len(kept) >= 1 THEN InsertBefore(rest, index, StackOf(kept))
             ELSE rest

\* LayoutStrip::insert_at; `after` is the 0-based index of the source.
InsertAt(cols, after, e) ==
    IF after >= Len(cols)
    THEN Append(cols, Single(e))
    ELSE InsertBefore(cols, after + 1, Single(e))

\* LayoutStrip::append
AppendWindow(cols, e) == Append(cols, Single(e))

\* LayoutStrip::remove
Remove(cols, e) ==
    LET index == IndexOf(cols, e) IN
    IF index = 0 THEN cols
    ELSE LET col  == cols[index]
             rest == RemoveAt(cols, index)
             kept == Retain(col.ws, e)
         IN  IF ~col.stack THEN rest
             ELSE IF Len(kept) > 1 THEN InsertBefore(rest, index, StackOf(kept))
             ELSE IF Len(kept) = 1 THEN InsertBefore(rest, index, Single(kept[1]))
             ELSE rest

\* LayoutStrip::swap on 1-based indices (both in range: VecDeque::swap panics otherwise).
Swap(cols, l, r) ==
    [i \in 1..Len(cols) |-> IF i = l THEN cols[r] ELSE IF i = r THEN cols[l] ELSE cols[i]]

\* LayoutStrip::stack for a window that is in the strip.
StackWindow(cols, e) ==
    LET index == IndexOf(cols, e) IN
    IF index = 1 THEN cols
    ELSE IF cols[index].stack THEN cols
    ELSE LET without == RemoveAt(cols, index)
             column  == without[index - 1]
             rest    == RemoveAt(without, index - 1)
             grown   == IF column.stack THEN Append(column.ws, e)
                        ELSE <<column.ws[1], e>>
         IN  InsertBefore(rest, index - 1, StackOf(grown))

\* LayoutStrip::unstack for a window that is in the strip.
UnstackWindow(cols, e) ==
    LET index == IndexOf(cols, e) IN
    IF ~cols[index].stack THEN cols
    ELSE LET rest     == RemoveAt(cols, index)
             kept     == Retain(cols[index].ws, e)
             newstack == IF Len(kept) = 1 THEN Single(kept[1]) ELSE StackOf(kept)
             withW    == InsertBefore(rest, index, Single(e))
         IN  InsertBefore(withW, index, newstack)

\* LayoutStrip::all_windows
RECURSIVE AllWindows(_)
AllWindows(cols) ==
    IF cols = <<>> THEN <<>> ELSE Head(cols).ws \o AllWindows(Tail(cols))

\* LayoutStrip::left_neighbour; 0 stands for None.
LeftNeighbour(cols, e) ==
    LET index == IndexOf(cols, e) IN
    IF index = 0 THEN 0
    ELSE IF index > 1
         THEN AtOrLast(cols[index - 1], PositionOf(cols[index], e))
         ELSE 0

\* right_neighbour that always yields the bottom window of the next column.
RightNeighbourBottom(cols, e) ==
    LET index == IndexOf(cols, e) IN
    IF index = 0 THEN 0
    ELSE IF index + 1 <= Len(cols)
         THEN cols[index + 1].ws[Len(cols[index + 1].ws)]
         ELSE 0

\* LayoutStrip::right_neighbour; 0 stands for None.
RightNeighbour(cols, e) ==
    LET index == IndexOf(cols, e) IN
    IF index = 0 THEN 0
    ELSE IF index + 1 <= Len(cols)
         THEN AtOrLast(cols[index + 1], PositionOf(cols[index], e))
         ELSE 0

(***************************************************************************)
(* The strip as a state machine: one action per LayoutStrip operation.     *)
(***************************************************************************)
NoOp == [op |-> "none", w |-> 0, ok |-> TRUE, pre |-> <<>>]

\* The values the variables of the other specifications rest at.
BinIdle ==
    /\ bpIn = [h |-> <<>>, m |-> 0, total |-> 0]
    /\ bpOut = [done |-> FALSE, some |-> FALSE, r |-> <<>>]

StripIdle ==
    /\ columns = <<>>
    /\ last = NoOp

\* The window entities of the animation specification.
AnimWindows == {1}

\* IVec2
Vec(x, y) == [x |-> x, y |-> y]

\* IRect, kept as its min corner and its size.
Rect(x, y, w, h) == [x |-> x, y |-> y, w |-> w, h |-> h]

NoReposition == [on |-> FALSE, origin |-> Vec(0, 0), display_id |-> 0]

NoResize == [on |-> FALSE, size |-> Vec(0, 0), display_id |-> 0]

AnimIdle ==
    /\ frame = [w \in AnimWindows |-> Rect(0, 0, 1, 1)]
    /\ repositionMarker = [w \in AnimWindows |-> NoReposition]
    /\ resizeMarker = [w \in AnimWindows |-> NoResize]
    /\ displayIds = {}
    /\ moveDelta = 0
    /\ elapsed = 0

NoDock == [kind |-> "None", offset |-> 0]

NoPadding == [top |-> 0, right |-> 0, bottom |-> 0, left |-> 0]

LayoutIdle ==
    /\ reshuffle = {}
    /\ dock = NoDock
    /\ edgePadding = NoPadding
    /\ clIn = [offset |-> 0, width |-> 0, height |-> 0]
    /\ clOut = <<>>

\* CGDirectDisplayID of the displays that can be connected.
DisplayIds == {1, 2}

\* WorkspaceId of the Spaces.  Space 1 belongs to display 1 and Space 3 to
\* display 2 when the program starts; Space 2 is one the user creates on
\* display 1 afterwards.
WorkspaceIds == {1, 2, 3}

StartupWorkspaces == {1, 3}

DisplayOfWorkspace(s) == IF s = 3 THEN 2 ELSE 1

\* The window entities of the window manager specification.
WMWindows == {1}

\* The entities a LayoutStrip can be spawned as.
StripEntities == 1..MaxStrips

WMIdle ==
    /\ os = [present |-> {}, workspaces |-> {}, active_display |-> 0,
             active_space |-> [d \in DisplayIds |-> 0],
             windows |-> [w \in WMWindows |-> 0]]
    /\ displays = <<>>
    /\ strips = <<>>
    /\ unmanaged = <<>>

EventIdle ==
    /\ entities = {}
    /\ floating = {}
    /\ focused = {}
    /\ focusedId = 0
    /\ channel = <<>>
    /\ messages = <<>>
    /\ strayFocus = {}
    /\ skipReshuffle = FALSE
    /\ ffmFlag = 0
    /\ minimizedIds = {}

CmdIdle == fullWidthMarker = <<>>

DragIdle ==
    /\ dragMarker = [entity |-> 0, elapsed |-> 0]

LaunchIdle ==
    /\ launch = [running |-> FALSE, ready |-> FALSE, listed |-> {},
                 proc |-> [on |-> FALSE, fresh |-> FALSE, timer |-> -1],
                 app |-> [on |-> FALSE, fresh |-> FALSE, timer |-> -1],
                 wins |-> {}]

BootIdle ==
    /\ startup = [initializing |-> FALSE, procs |-> <<>>, pending |-> {}, returned |-> {}]

QueueIdle ==
    /\ queue = [log |-> <<>>, dropped |-> 0, mark |-> 0, cursor |-> 0, runs |-> <<>>]

PumpIdle ==
    /\ pumpTimeout = 0
    /\ phase = "running"
    /\ connected = TRUE

StripInit ==
    /\ StripIdle
    /\ BinIdle
    /\ AnimIdle
    /\ LayoutIdle
    /\ WMIdle
    /\ EventIdle
    /\ CmdIdle
    /\ PumpIdle
    /\ QueueIdle
    /\ BootIdle
    /\ LaunchIdle
    /\ DragIdle

\* insert_at(after, w) of a window that is not yet in the strip.
DoInsertAt ==
    \E w \in Windows, after \in 0..NumWindows :
        /\ IndexOf(columns, w) = 0
        /\ columns' = InsertAt(columns, after, w)
        /\ last' = [op |-> "insert_at", w |-> w, ok |-> TRUE, pre |-> columns]

\* append(w) of a window that is not yet in the strip.
DoAppend ==
    \E w \in Windows :
        /\ IndexOf(columns, w) = 0
        /\ columns' = AppendWindow(columns, w)
        /\ last' = [op |-> "append", w |-> w, ok |-> TRUE, pre |-> columns]

\* remove(w), of any window (absent windows leave the strip alone).
DoRemove ==
    \E w \in Windows :
        /\ columns' = Remove(columns, w)
        /\ last' = [op |-> "remove", w |-> w, ok |-> TRUE, pre |-> columns]

\* swap(l, r) of two columns of the strip.
DoSwap ==
    \E l \in 1..Len(columns), r \in 1..Len(columns) :
        /\ columns' = Swap(columns, l, r)
        /\ last' = [op |-> "swap", w |-> 0, ok |-> TRUE, pre |-> columns]

\* stack(w): Err(NotFound) when w is in no column, else Ok.
DoStack ==
    \E w \in Windows :
        /\ columns' = IF IndexOf(columns, w) = 0 THEN columns ELSE StackWindow(columns, w)
        /\ last' = [op |-> "stack", w |-> w, ok |-> IndexOf(columns, w) /= 0,
                    pre |-> columns]

\* unstack(w): Err(NotFound) when w is in no column, else Ok.
DoUnstack ==
    \E w \in Windows :
        /\ columns' = IF IndexOf(columns, w) = 0 THEN columns ELSE UnstackWindow(columns, w)
        /\ last' = [op |-> "unstack", w |-> w, ok |-> IndexOf(columns, w) /= 0,
                    pre |-> columns]

StripNext ==
    \/ DoInsertAt
    \/ DoAppend
    \/ DoRemove
    \/ DoSwap
    \/ DoStack
    \/ DoUnstack

SpecStrip == StripInit /\ [][StripNext /\ UNCHANGED <<binVars, animVars, layoutVars, wmVars, eventVars, cmdVars, pumpVars, dragVars, launchVars, bootVars, queueVars>>]_vars

(***************************************************************************)
(* binpack_heights (layout.rs:414-465).  The result is a record: `some`    *)
(* is FALSE for None, and r is the vector of heights.                      *)
(* The i32::try_from(usize) conversions cannot fail for these lengths.     *)
(***************************************************************************)
RECURSIVE SumSeq(_)
SumSeq(s) == IF s = <<>> THEN 0 ELSE Head(s) + SumSeq(Tail(s))

\* `(a as f64 / b as f64) as i32`: the quotient truncated towards zero.
TruncDiv(a, b) == IF a >= 0 THEN a \div b ELSE -((-a) \div b)

\* n copies of x
Repeat(x, n) == [i \in 1..n |-> x]

\* The inner `while idx < count` loop: the output and idx when it ends or breaks.
RECURSIVE BinpackPass(_, _, _, _, _, _)
BinpackPass(heights, count, min_height, idx, remaining, output) ==
    IF idx >= count THEN [idx |-> idx, out |-> output]
    ELSE LET remaining_windows == Len(heights) - idx
             h == heights[idx + 1]
         IN  IF h < remaining
             THEN BinpackPass(heights, count, min_height, idx + 1, remaining - h,
                              Append(output, IF idx + 1 = count THEN remaining ELSE h))
             ELSE IF remaining >= min_height * remaining_windows
             THEN BinpackPass(heights, count, min_height, idx + 1, 0,
                              Append(output, remaining))
             ELSE [idx |-> idx, out |-> output]

\* The outer `loop`: retry with one window fewer until a pass runs to its end.
RECURSIVE BinpackLoop(_, _, _, _)
BinpackLoop(heights, count, min_height, total_height) ==
    LET pass == BinpackPass(heights, count, min_height, 0, total_height, <<>>) IN
    IF pass.idx = count THEN [count |-> count, out |-> pass.out]
    ELSE BinpackLoop(heights, count - 1, min_height, total_height)

BinpackHeights(heights, min_height, total_height) ==
    LET fit       == BinpackLoop(heights, Len(heights), min_height, total_height)
        remaining == Len(heights) - fit.count
    IN  IF remaining > 0 /\ fit.count > 0
        THEN LET count      == fit.count - 1
                 output     == SubSeq(fit.out, 1, count)
                 avg_height == TruncDiv(total_height - SumSeq(output), remaining + 1)
             IN  IF avg_height < min_height
                 THEN [done |-> TRUE, some |-> FALSE, r |-> <<>>]
                 ELSE [done |-> TRUE, some |-> TRUE,
                       r |-> output \o Repeat(avg_height, Len(heights) - count)]
        ELSE [done |-> TRUE, some |-> TRUE, r |-> fit.out]

\* All non-empty sequences over S of length at most n (a column holds at
\* least one window, layout.rs:363-377).
SeqsUpTo(S, n) == UNION {[1..k -> S] : k \in 1..n}

BinInit ==
    /\ bpIn \in [h : SeqsUpTo(1..MaxHeight, MaxStack), m : 1..MaxMin, total : 1..MaxTotal]
    /\ bpOut = [done |-> FALSE, some |-> FALSE, r |-> <<>>]
    /\ StripIdle
    /\ AnimIdle
    /\ LayoutIdle
    /\ WMIdle
    /\ EventIdle
    /\ CmdIdle
    /\ PumpIdle
    /\ QueueIdle
    /\ BootIdle
    /\ LaunchIdle
    /\ DragIdle

\* One call of binpack_heights on the drawn arguments.
DoBinpack ==
    /\ ~bpOut.done
    /\ bpOut' = BinpackHeights(bpIn.h, bpIn.m, bpIn.total)
    /\ UNCHANGED bpIn

BinNext == DoBinpack

SpecBinpack == BinInit /\ [][BinNext /\ UNCHANGED <<stripVars, animVars, layoutVars, wmVars, eventVars, cmdVars, pumpVars, dragVars, launchVars, bootVars, queueVars>>]_vars

(***************************************************************************)
(* The animation systems animate_windows and animate_resize_windows        *)
(* (systems.rs:646-724).  Distances per tick are rationals n/StepDen, and  *)
(* Vec2 arithmetic is exact.                                               *)
(***************************************************************************)
Abs(a) == IF a < 0 THEN -a ELSE a

Sign(a) == IF a < 0 THEN -1 ELSE IF a > 0 THEN 1 ELSE 0

\* One coordinate of from + (rhs - from) / len * d after as_ivec2(), where
\* d = n/StepDen, a is that coordinate of rhs - from and len2 the squared
\* length of rhs - from.  k is the integer part of |a| * d / len and t the
\* point k further on; the conversion truncates towards zero, which is t
\* when the step is a whole number or leads away from zero at t, and one
\* further on otherwise.
StepTowards(c, a, len2, n) ==
    LET k == CHOOSE k \in 0..Abs(a) :
                /\ k * k * StepDen * StepDen * len2 <= a * a * n * n
                /\ \A j \in (k + 1)..Abs(a) :
                      j * j * StepDen * StepDen * len2 > a * a * n * n
        t == c + Sign(a) * k
    IN  IF t * Sign(a) >= 0 \/ k * k * StepDen * StepDen * len2 = a * a * n * n
        THEN t
        ELSE t + Sign(a)

\* Vec2::move_towards(rhs, d) followed by as_ivec2(), with d = n/StepDen:
\* rhs when the distance is at most d, else the point d further on,
\* truncated towards zero by the conversion to integers.
MoveTowards(from, rhs, n) ==
    LET ax   == rhs.x - from.x
        ay   == rhs.y - from.y
        len2 == ax * ax + ay * ay
    IN  IF len2 * StepDen * StepDen <= n * n
        THEN rhs
        ELSE Vec(StepTowards(from.x, ax, len2, n), StepTowards(from.y, ay, len2, n))

\* The loop body of animate_windows for a window of frame fr and marker mk.
Repositioned(fr, mk) ==
    IF mk.on /\ mk.display_id \in displayIds
    THEN LET delta == MoveTowards(Vec(fr.x, fr.y), mk.origin, moveDelta)
         IN  Rect(delta.x, delta.y, fr.w, fr.h)
    ELSE fr

\* The loop body of animate_resize_windows, which waits while the window
\* carries a RepositionMarker.
Resized(fr, mk, moving) ==
    IF mk.on /\ ~moving /\ mk.display_id \in displayIds
    THEN LET delta == MoveTowards(Vec(fr.w, fr.h), mk.size, moveDelta)
         IN  Rect(fr.x, fr.y, delta.x, delta.y)
    ELSE fr

\* Animation systems that run before the markers of the tick are applied.
AnimateSkipped(fr, rp, rs) == [frame |-> fr, reposition |-> rp, resize |-> rs]

\* Both animation systems on the markers rp and rs: the new frames and the
\* markers left after their try_remove commands.
Animate(fr, rp, rs) ==
    The({[frame |-> moved,
          reposition |-> [w \in DOMAIN fr |->
             IF rp[w].on /\ rp[w].display_id \in displayIds
                /\ Vec(moved[w].x, moved[w].y) = rp[w].origin
             THEN NoReposition ELSE rp[w]],
          resize |-> [w \in DOMAIN fr |->
             IF rs[w].on /\ ~rp[w].on /\ rs[w].display_id \in displayIds
                /\ Vec(moved[w].w, moved[w].h) = rs[w].size
             THEN NoResize ELSE rs[w]]] :
         moved \in {[w \in DOMAIN fr |->
                        Resized(Repositioned(fr[w], rp[w]), rs[w], rp[w].on)]}})

Coords == (-MaxPos)..MaxPos

Sizes == 1..MaxSize

AnimInit ==
    /\ frame \in [AnimWindows -> [x : Coords, y : Coords, w : Sizes, h : Sizes]]
    /\ displayIds \in {{}, {1}}
    /\ repositionMarker \in [AnimWindows ->
            {NoReposition} \cup [on : {TRUE}, origin : [x : Coords, y : Coords],
                                 display_id : {1}]]
    /\ resizeMarker \in [AnimWindows ->
            {NoResize} \cup [on : {TRUE}, size : [x : Sizes, y : Sizes], display_id : {1}]]
    /\ moveDelta \in 1..MaxStepNum
    /\ elapsed = 0
    /\ StripIdle
    /\ BinIdle
    /\ LayoutIdle
    /\ WMIdle
    /\ EventIdle
    /\ CmdIdle
    /\ PumpIdle
    /\ QueueIdle
    /\ BootIdle
    /\ LaunchIdle
    /\ DragIdle

\* One tick of the PostUpdate schedule with no marker inserted: both
\* animation systems run on the markers present at the start of the tick,
\* and their try_remove commands are applied at the end.
AnimTick ==
    \E next \in {Animate(frame, repositionMarker, resizeMarker)} :
    /\ elapsed' = (elapsed + 1) % WrapPeriod
    /\ frame' = next.frame
    /\ repositionMarker' = next.reposition
    /\ resizeMarker' = next.resize
    /\ UNCHANGED <<displayIds, moveDelta>>

AnimNext == AnimTick

SpecAnim == AnimInit /\ [][AnimNext /\ UNCHANGED <<stripVars, binVars, layoutVars, wmVars, eventVars, cmdVars, pumpVars, dragVars, launchVars, bootVars, queueVars>>]_vars

\* The schedule runs for ever: every tick is eventually taken.
SpecAnimFair == SpecAnim /\ WF_vars(AnimTick /\ UNCHANGED <<stripVars, binVars, layoutVars, wmVars, eventVars, cmdVars, pumpVars, dragVars, launchVars, bootVars, queueVars>>)

(***************************************************************************)
(* The reshuffle engine: expose_window, reshuffle_layout_strip and         *)
(* position_layout_windows (systems.rs:798-889, 1128-1291) with            *)
(* absolute_positions and calculate_layout (layout.rs:318-399).  One       *)
(* display, the active one, whose bounds start at the origin.              *)
(***************************************************************************)
TEST_DISPLAY_ID == 1

TEST_DISPLAY_WIDTH == 1024

TEST_DISPLAY_HEIGHT == 768

TEST_MENUBAR_HEIGHT == 20

\* active_display.bounds()
DisplayBounds == Rect(0, 0, TEST_DISPLAY_WIDTH, TEST_DISPLAY_HEIGHT)

MIN_WINDOW_HEIGHT == 200

WINDOW_HIDDEN_THRESHOLD == 10

\* A window with at most this many visible pixels is off-screen.
OffScreenVisible == 20

\* Config::sliver_width with the option unset.
SliverWidth == 5

\* Config::sliver_height with the option unset, in percent.
SliverHeightPct == 100

\* Window::horizontal_padding
HorizontalPadding == 0

Max(a, b) == IF a >= b THEN a ELSE b

Min(a, b) == IF a <= b THEN a ELSE b

\* i32::clamp
Clamp(v, lo, hi) == IF v < lo THEN lo ELSE IF v > hi THEN hi ELSE v

\* get_moving_window_frame: the frame with the markers read as the intent.
GetMovingWindowFrame(w) ==
    LET fr    == frame[w]
        rp    == repositionMarker[w]
        rs    == resizeMarker[w]
        moved == IF rp.on /\ rp.display_id = TEST_DISPLAY_ID
                 THEN Rect(rp.origin.x, rp.origin.y, fr.w, fr.h) ELSE fr
    IN  IF rs.on /\ rs.display_id = TEST_DISPLAY_ID
        THEN Rect(moved.x, moved.y, rs.size.x, rs.size.y) ELSE moved

\* expose_window without the clamp against the dock.
ExposeWindowPaddedOnly(w) ==
    LET fr     == GetMovingWindowFrame(w)
        minx   == DisplayBounds.x
        maxx   == DisplayBounds.x + DisplayBounds.w
    IN  Rect(IF fr.x + fr.w > maxx - edgePadding.right
             THEN maxx - edgePadding.right - fr.w
             ELSE IF fr.x < minx + edgePadding.left
             THEN minx + edgePadding.left
             ELSE fr.x, fr.y, fr.w, fr.h)

\* expose_window
ExposeWindow(w) ==
    LET fr     == GetMovingWindowFrame(w)
        minx   == DisplayBounds.x
        maxx   == DisplayBounds.x + DisplayBounds.w
        bumped == IF fr.x + fr.w > maxx - edgePadding.right
                  THEN maxx - edgePadding.right - fr.w
                  ELSE IF fr.x < minx + edgePadding.left
                  THEN minx + edgePadding.left
                  ELSE fr.x
        docked == IF dock.kind = "Left"
                  THEN (IF bumped < minx + dock.offset THEN minx + dock.offset ELSE bumped)
                  ELSE IF dock.kind = "Right"
                  THEN (IF bumped + fr.w > maxx - dock.offset
                        THEN minx - fr.w - dock.offset ELSE bumped)
                  ELSE bumped
    IN  Rect(docked, fr.y, fr.w, fr.h)

\* LayoutStrip::absolute_positions: the left edge of column i (1-based), the
\* sum of the widths of the top windows of the columns before it.
RECURSIVE AbsolutePosition(_, _)
AbsolutePosition(cols, i) ==
    IF i <= 1 THEN 0
    ELSE AbsolutePosition(cols, i - 1) + GetMovingWindowFrame(Top(cols[i - 1])).w

\* get_display_height
GetDisplayHeight ==
    DisplayBounds.h - (IF dock.kind = "Bottom" THEN dock.offset ELSE 0)

\* The heights binpack_heights gives to the windows of a column.
ColumnHeights(col, viewportHeight) ==
    BinpackHeights([i \in 1..Len(col.ws) |-> GetMovingWindowFrame(col.ws[i]).h],
                   MIN_WINDOW_HEIGHT, viewportHeight)

\* LayoutStrip::calculate_layout yields a frame for v: its column was packed
\* and v is among the windows that were given a height.
LaidOut(cols, v, viewportHeight) ==
    /\ IndexOf(cols, v) /= 0
    /\ LET col     == ColumnOf(cols, v)
           heights == ColumnHeights(col, viewportHeight)
       IN  heights.some /\ PositionOf(col, v) <= Len(heights.r)

\* calculate_layout that never subtracts the offset.
CalculateLayoutNoOffset(cols, v, offset, viewportWidth, viewportHeight) ==
    LET index        == IndexOf(cols, v)
        col          == cols[index]
        heights      == ColumnHeights(col, viewportHeight).r
        column_width == GetMovingWindowFrame(col.ws[1]).w
        pos          == PositionOf(col, v)
    IN  Rect(Clamp(AbsolutePosition(cols, index),
                   0 + WINDOW_HIDDEN_THRESHOLD - column_width,
                   viewportWidth - WINDOW_HIDDEN_THRESHOLD),
             SumSeq(SubSeq(heights, 1, pos - 1)),
             column_width,
             heights[pos])

\* calculate_layout without the clamp of x.
CalculateLayoutUnclamped(cols, v, offset, viewportWidth, viewportHeight) ==
    LET index        == IndexOf(cols, v)
        col          == cols[index]
        heights      == ColumnHeights(col, viewportHeight).r
        column_width == GetMovingWindowFrame(col.ws[1]).w
        pos          == PositionOf(col, v)
    IN  Rect(AbsolutePosition(cols, index) - offset,
             SumSeq(SubSeq(heights, 1, pos - 1)),
             column_width,
             heights[pos])

\* LayoutStrip::calculate_layout: the frame it yields for v, relative to a
\* viewport of the given size whose min is (0, 0).
CalculateLayout(cols, v, offset, viewportWidth, viewportHeight) ==
    LET index        == IndexOf(cols, v)
        col          == cols[index]
        heights      == ColumnHeights(col, viewportHeight).r
        column_width == GetMovingWindowFrame(col.ws[1]).w
        pos          == PositionOf(col, v)
    IN  Rect(Clamp(AbsolutePosition(cols, index) - offset,
                   0 + WINDOW_HIDDEN_THRESHOLD - column_width,
                   viewportWidth - WINDOW_HIDDEN_THRESHOLD),
             SumSeq(SubSeq(heights, 1, pos - 1)),
             column_width,
             heights[pos])

\* Display::absolute_coords: from display-relative to screen coordinates.
AbsoluteCoords(p) == Vec(p.x + DisplayBounds.x, p.y + DisplayBounds.y)

\* The inset of a sliver, (height * (1.0 - sliver_height) / 2.0) as i32.
SliverInset(height) == TruncDiv(height * (100 - SliverHeightPct), 200)

\* position_layout_windows with every column shifted right by its index.
TargetFrameShifted(cols, v, lay, viewportHeight) ==
    LET pad_left      == edgePadding.left
        pad_top       == edgePadding.top
        display_width == DisplayBounds.w
        padded_right  == display_width - edgePadding.right
        min           == AbsoluteCoords(Vec(lay.x, lay.y))
        max           == AbsoluteCoords(Vec(lay.x + lay.w, lay.y + lay.h))
        minx          == min.x + pad_left
        maxx          == max.x + pad_left
        visible       == Max(Min(maxx, padded_right) - Max(minx, pad_left), 0)
        width         == maxx - minx
        window_center == minx + TruncDiv(width, 2)
        inset         == SliverInset(viewportHeight)
    IN  IF visible <= OffScreenVisible
        THEN LET x == IF window_center <= pad_left
                      THEN SliverWidth + HorizontalPadding - width
                      ELSE display_width - SliverWidth - HorizontalPadding
             IN  IF ColumnOf(cols, v).stack
                 THEN Rect(x, min.y + TEST_MENUBAR_HEIGHT + pad_top, width, max.y - min.y)
                 ELSE Rect(x, min.y + TEST_MENUBAR_HEIGHT + pad_top + inset, width,
                           (max.y - inset) - (min.y + TEST_MENUBAR_HEIGHT + pad_top + inset))
        ELSE Rect(minx + IndexOf(cols, v), min.y + TEST_MENUBAR_HEIGHT + pad_top, width,
                  max.y - min.y)

\* position_layout_windows with the slivers measured from the padded
\* viewport.
TargetFramePaddedSliver(cols, v, lay, viewportHeight) ==
    LET pad_left      == edgePadding.left
        pad_top       == edgePadding.top
        display_width == DisplayBounds.w
        padded_right  == display_width - edgePadding.right
        min           == AbsoluteCoords(Vec(lay.x, lay.y))
        max           == AbsoluteCoords(Vec(lay.x + lay.w, lay.y + lay.h))
        minx          == min.x + pad_left
        maxx          == max.x + pad_left
        visible       == Max(Min(maxx, padded_right) - Max(minx, pad_left), 0)
        width         == maxx - minx
        window_center == minx + TruncDiv(width, 2)
        inset         == SliverInset(viewportHeight)
    IN  IF visible <= OffScreenVisible
        THEN LET x == IF window_center <= pad_left
                      THEN pad_left + SliverWidth + HorizontalPadding - width
                      ELSE padded_right - SliverWidth - HorizontalPadding
             IN  IF ColumnOf(cols, v).stack
                 THEN Rect(x, min.y + TEST_MENUBAR_HEIGHT + pad_top, width, max.y - min.y)
                 ELSE Rect(x, min.y + TEST_MENUBAR_HEIGHT + pad_top + inset, width,
                           (max.y - inset) - (min.y + TEST_MENUBAR_HEIGHT + pad_top + inset))
        ELSE Rect(minx, min.y + TEST_MENUBAR_HEIGHT + pad_top, width, max.y - min.y)

\* The loop body of position_layout_windows: the frame window v is sent to,
\* from the frame lay that calculate_layout yields for it.
TargetFrame(cols, v, lay, viewportHeight) ==
    LET pad_left      == edgePadding.left
        pad_top       == edgePadding.top
        display_width == DisplayBounds.w
        padded_right  == display_width - edgePadding.right
        min           == AbsoluteCoords(Vec(lay.x, lay.y))
        max           == AbsoluteCoords(Vec(lay.x + lay.w, lay.y + lay.h))
        minx          == min.x + pad_left
        maxx          == max.x + pad_left
        visible       == Max(Min(maxx, padded_right) - Max(minx, pad_left), 0)
        width         == maxx - minx
        window_center == minx + TruncDiv(width, 2)
        inset         == SliverInset(viewportHeight)
    IN  IF visible <= OffScreenVisible
        THEN LET x == IF window_center <= pad_left
                      THEN SliverWidth + HorizontalPadding - width
                      ELSE display_width - SliverWidth - HorizontalPadding
             IN  IF ColumnOf(cols, v).stack
                 THEN Rect(x, min.y + TEST_MENUBAR_HEIGHT + pad_top, width, max.y - min.y)
                 ELSE Rect(x, min.y + TEST_MENUBAR_HEIGHT + pad_top + inset, width,
                           (max.y - inset) - (min.y + TEST_MENUBAR_HEIGHT + pad_top + inset))
        ELSE Rect(minx, min.y + TEST_MENUBAR_HEIGHT + pad_top, width, max.y - min.y)

\* position_layout_windows: the markers its reposition_entity and
\* resize_entity calls insert; a window without a call has on = FALSE.
PositionLayoutWindows(cols, viewport_offset) ==
    LET viewportWidth  == DisplayBounds.w - (edgePadding.left + edgePadding.right)
        viewportHeight == GetDisplayHeight - (edgePadding.top + edgePadding.bottom)
        offset         == viewport_offset + edgePadding.left
        Targets(laid)  == [v \in laid |->
                              The({TargetFrame(cols, v, lay, viewportHeight) :
                                   lay \in {CalculateLayout(cols, v, offset, viewportWidth,
                                                            viewportHeight)}})]
    IN  The({[reposition |-> [v \in DOMAIN frame |->
                 IF v \in DOMAIN target
                    /\ Vec(old[v].x, old[v].y) /= Vec(target[v].x, target[v].y)
                 THEN [on |-> TRUE, origin |-> Vec(target[v].x, target[v].y),
                       display_id |-> TEST_DISPLAY_ID]
                 ELSE NoReposition],
              resize |-> [v \in DOMAIN frame |->
                 IF v \in DOMAIN target
                    /\ Vec(old[v].w, old[v].h) /= Vec(target[v].w, target[v].h)
                    /\ target[v].w > 0 /\ target[v].h > 0
                 THEN [on |-> TRUE, size |-> Vec(target[v].w, target[v].h),
                       display_id |-> TEST_DISPLAY_ID]
                 ELSE NoResize]] :
             target \in {Targets({v \in DOMAIN frame : LaidOut(cols, v, viewportHeight)})},
             old \in {[v \in DOMAIN frame |-> GetMovingWindowFrame(v)]}})

\* position_layout_windows: the width of the frame lay that lies inside the
\* padded viewport, once lay is shifted by pad_left.
VisibleWidth(lay) ==
    LET minx == AbsoluteCoords(Vec(lay.x, lay.y)).x + edgePadding.left
        maxx == minx + lay.w
    IN  Max(Min(maxx, DisplayBounds.w - edgePadding.right) - Max(minx, edgePadding.left), 0)

\* is_off_screen
IsOffScreen(lay) == VisibleWidth(lay) <= OffScreenVisible

\* window_center
WindowCenter(lay) ==
    AbsoluteCoords(Vec(lay.x, lay.y)).x + edgePadding.left + TruncDiv(lay.w, 2)

\* The frames calculate_layout yields to position_layout_windows.
LayoutOf(cols, viewport_offset) ==
    LET viewportWidth  == DisplayBounds.w - (edgePadding.left + edgePadding.right)
        viewportHeight == GetDisplayHeight - (edgePadding.top + edgePadding.bottom)
        offset         == viewport_offset + edgePadding.left
    IN  [v \in {x \in DOMAIN frame : LaidOut(cols, x, viewportHeight)} |->
            CalculateLayout(cols, v, offset, viewportWidth, viewportHeight)]

\* position_layout_windows: the frame each window of the loop is sent to.
LayoutTargets(cols, viewport_offset) ==
    LET viewportHeight == GetDisplayHeight - (edgePadding.top + edgePadding.bottom)
        lay            == LayoutOf(cols, viewport_offset)
    IN  [v \in DOMAIN lay |-> TargetFrame(cols, v, lay[v], viewportHeight)]

\* reshuffle_layout_strip: the viewport offset of the iteration for w.
ViewportOffset(cols, w) ==
    AbsolutePosition(cols, IndexOf(cols, w)) - (ExposeWindow(w).x - DisplayBounds.x)

\* The loop body of reshuffle_layout_strip for the marked window w: the
\* markers inserted by this iteration.
ReshuffleAround(cols, w) ==
    IF IndexOf(cols, w) = 0
    THEN [reposition |-> [v \in DOMAIN frame |-> NoReposition],
          resize |-> [v \in DOMAIN frame |-> NoResize]]
    ELSE LET exposed      == ExposeWindow(w)
             abs_position == AbsolutePosition(cols, IndexOf(cols, w))
         IN  PositionLayoutWindows(cols, abs_position - (exposed.x - DisplayBounds.x))

\* reshuffle_layout_strip over the marked windows in the given order: every
\* iteration reads the world as it was at the start of the system, and the
\* queued insertions are applied in order, a later one replacing an earlier.
RECURSIVE ReshuffleLayoutStrip(_, _, _, _)
ReshuffleLayoutStrip(cols, order, rp, rs) ==
    IF order = <<>> THEN [reposition |-> rp, resize |-> rs]
    ELSE The({ReshuffleLayoutStrip(cols, Tail(order), queued.reposition, queued.resize) :
              queued \in {The({[reposition |-> [v \in DOMAIN frame |->
                                    IF cmds.reposition[v].on THEN cmds.reposition[v]
                                    ELSE rp[v]],
                                resize |-> [v \in DOMAIN frame |->
                                    IF cmds.resize[v].on THEN cmds.resize[v] ELSE rs[v]]] :
                               cmds \in {ReshuffleAround(cols, Head(order))}})}})

\* The window entities of the reshuffle specification.
LayoutWindows == {1, 2}

\* The injective sequences over S: the orders a query may iterate S in.
Perms(S) ==
    {f \in [1..Cardinality(S) -> S] : \A i, j \in 1..Cardinality(S) : i /= j => f[i] /= f[j]}

\* The columns and the strips that hold every window of S at most once.
ColumnsOver(S) ==
    {Single(e) : e \in S} \cup
    {StackOf(q) : q \in UNION {Perms(T) : T \in {T \in SUBSET S : Cardinality(T) >= 2}}}

StripsOver(S) ==
    {cs \in UNION {[1..k -> ColumnsOver(S)] : k \in 0..Cardinality(S)} :
        Len(AllWindows(cs)) = Cardinality(Range(AllWindows(cs)))}

\* Frames the windows start with.  Window 1 is partly off the display to the
\* left or to the right and is ordinary or nearly display-wide; window 2 is
\* a narrow window at the left edge.
LayoutFrames ==
    {fr \in [LayoutWindows -> [x : {-300, 0, 700}, y : {TEST_MENUBAR_HEIGHT},
                                w : {200, 400, 1000}, h : {300}]] :
        /\ fr[1].x /= 0 /\ fr[1].w /= 200
        /\ fr[2].x = 0 /\ fr[2].w = 200}

\* The windows of test_window_shuffle, three of them: 400 wide, 100 apart,
\* one column each.
ShuffleWindows == {1, 2, 3}

ShuffleFrames ==
    {[w \in ShuffleWindows |-> Rect(100 * (w - 1), TEST_MENUBAR_HEIGHT, 400, 300)]}

ShuffleStrips == {<<Single(1), Single(2), Single(3)>>}

\* Four such windows after three Stack commands: one column.
TallWindows == {1, 2, 3, 4}

TallFrames ==
    {[w \in TallWindows |-> Rect(100 * (w - 1), TEST_MENUBAR_HEIGHT, 400, 300)]}

TallStrips == {<<StackOf(<<1, 2, 3, 4>>)>>}

Docks ==
    {NoDock, [kind |-> "Left", offset |-> 60], [kind |-> "Right", offset |-> 60],
     [kind |-> "Bottom", offset |-> 60]}

Paddings == {NoPadding, [top |-> 0, right |-> 30, bottom |-> 0, left |-> 20]}

\* A move_delta that covers any distance on the display in one tick (the
\* animation is as good as disabled), in 1/StepDen pixels.
FastMoveDelta == 40000

LayoutInit ==
    /\ WMIdle
    /\ EventIdle
    /\ CmdIdle
    /\ PumpIdle
    /\ QueueIdle
    /\ BootIdle
    /\ LaunchIdle
    /\ DragIdle
    /\ \/ /\ columns \in StripsOver(LayoutWindows)
          /\ frame \in LayoutFrames
          /\ dock \in Docks
          /\ edgePadding \in Paddings
       \/ /\ columns \in ShuffleStrips
          /\ frame \in ShuffleFrames
          /\ dock = NoDock
          /\ edgePadding = NoPadding
       \/ /\ columns \in TallStrips
          /\ frame \in TallFrames
          /\ dock \in Docks
          /\ edgePadding \in Paddings
    /\ last = NoOp
    /\ repositionMarker = [w \in DOMAIN frame |-> NoReposition]
    /\ resizeMarker = [w \in DOMAIN frame |-> NoResize]
    /\ displayIds = {TEST_DISPLAY_ID}
    /\ moveDelta = FastMoveDelta
    /\ elapsed = 0
    /\ reshuffle = {}
    /\ clIn = [offset |-> 0, width |-> 0, height |-> 0]
    /\ clOut = <<>>
    /\ BinIdle

\* reshuffle_around(w): a command or trigger marks w in the Update schedule.
\* `last` remembers whether w is marked again, with no marker left, after
\* the reshuffle around it.
DoReshuffleAround ==
    \E w \in DOMAIN frame \ reshuffle :
        /\ reshuffle' = reshuffle \cup {w}
        /\ last' = [op |-> "mark", w |-> <<w>>,
                    ok |-> /\ reshuffle = {}
                           /\ last.op \in {"reshuffle", "tick"}
                           /\ last.w = <<w>>
                           /\ \A v \in DOMAIN frame :
                                ~repositionMarker[v].on /\ ~resizeMarker[v].on,
                    pre |-> <<>>]
        /\ UNCHANGED <<columns, animVars, dock, edgePadding, clIn, clOut>>

\* What `last` remembers of a reshuffle pass that ran the marked windows
\* in `order` and queued `cmds`: whether it repeats the reshuffle before it
\* from a state without markers, the windows whose markers it inserted or
\* replaced, and, for the last marked window of the strip, the frames
\* calculate_layout yielded and the frames the windows were sent to.
PassNote(order, cmds) ==
    LET marked == SelectSeq(order, LAMBDA w : IndexOf(columns, w) /= 0) IN
    [again   |-> last.op = "mark" /\ last.ok,
     emitted |-> {v \in DOMAIN frame : \/ cmds.reposition[v] /= repositionMarker[v]
                                       \/ cmds.resize[v] /= resizeMarker[v]},
     lay     |-> IF marked = <<>> THEN <<>>
                 ELSE LayoutOf(columns, ViewportOffset(columns, marked[Len(marked)])),
     targets |-> IF marked = <<>> THEN <<>>
                 ELSE LayoutTargets(columns, ViewportOffset(columns, marked[Len(marked)]))]

\* One tick of the PostUpdate schedule: reshuffle_layout_strip on the marked
\* windows, its commands applied, then the two animation systems.
PostUpdate ==
    \E order \in Perms(reshuffle) :
      \E cmds \in {ReshuffleLayoutStrip(columns, order, repositionMarker, resizeMarker)} :
        \E next \in {Animate(frame, cmds.reposition, cmds.resize)} :
            /\ reshuffle' = {}
            /\ frame' = next.frame
            /\ repositionMarker' = next.reposition
            /\ resizeMarker' = next.resize
            /\ elapsed' = (elapsed + 1) % WrapPeriod
            /\ last' = IF order = <<>>
                       THEN [op |-> "tick",
                             w |-> IF last.op \in {"reshuffle", "tick"} THEN last.w
                                   ELSE <<>>,
                             ok |-> TRUE, pre |-> <<>>]
                       ELSE [op |-> "reshuffle", w |-> order, ok |-> TRUE,
                             pre |-> PassNote(order, cmds)]
            /\ UNCHANGED <<columns, displayIds, moveDelta, dock, edgePadding, clIn, clOut>>

LayoutNext ==
    \/ DoReshuffleAround
    \/ PostUpdate

SpecLayout == LayoutInit /\ [][LayoutNext /\ UNCHANGED <<binVars, wmVars, eventVars, cmdVars, pumpVars, dragVars, launchVars, bootVars, queueVars>>]_vars

(***************************************************************************)
(* calculate_layout (layout.rs:344-399) as a function of its arguments: a  *)
(* strip, the frames of its windows, an offset and a viewport whose min is *)
(* (0, 0).  A call keeps the strip, the frames and the viewport and takes  *)
(* another offset; `last` remembers the call before it.                    *)
(***************************************************************************)
CalcWindows == {1, 2, 3}

\* Frame widths: as narrow as the visible sliver, ordinary, wider than the
\* viewport.
CalcWidths == {10, 300, 700}

CalcHeights == {300}

CalcViewportWidth == 600

\* Viewport heights: room for a stack of two, and too low for one.
CalcViewportHeights == {500, 390}

CalcOffsets == {-400, -50, 0, 50, 300, 1000}

\* Everything calculate_layout yields: the frame of every window it lays out.
CalculateLayoutAll(cols, offset, viewportWidth, viewportHeight) ==
    [v \in {x \in DOMAIN frame : LaidOut(cols, x, viewportHeight)} |->
        CalculateLayout(cols, v, offset, viewportWidth, viewportHeight)]

CalcInit ==
    /\ WMIdle
    /\ EventIdle
    /\ CmdIdle
    /\ PumpIdle
    /\ QueueIdle
    /\ BootIdle
    /\ LaunchIdle
    /\ DragIdle
    /\ BinIdle
    /\ columns \in StripsOver(CalcWindows)
    /\ last = NoOp
    /\ frame \in [CalcWindows -> [x : {0}, y : {0}, w : CalcWidths, h : CalcHeights]]
    /\ repositionMarker = [w \in CalcWindows |-> NoReposition]
    /\ resizeMarker = [w \in CalcWindows |-> NoResize]
    /\ displayIds = {}
    /\ moveDelta = 0
    /\ elapsed = 0
    /\ reshuffle = {}
    /\ dock = NoDock
    /\ edgePadding = NoPadding
    /\ clIn \in [offset : {0}, width : {CalcViewportWidth}, height : CalcViewportHeights]
    /\ clOut = <<>>

\* strip.calculate_layout(offset, &viewport, &get_window_frame), collected.
DoCalculateLayout ==
    \E offset \in CalcOffsets :
        /\ clIn' = [clIn EXCEPT !.offset = offset]
        /\ clOut' = CalculateLayoutAll(columns, offset, clIn.width, clIn.height)
        /\ last' = [op |-> "calculate_layout", w |-> clIn.offset,
                    ok |-> last.op = "calculate_layout", pre |-> clOut]
        /\ UNCHANGED <<columns, animVars, reshuffle, dock, edgePadding>>

CalcNext == DoCalculateLayout

SpecCalc == CalcInit /\ [][CalcNext /\ UNCHANGED <<binVars, wmVars, eventVars, cmdVars, pumpVars, dragVars, launchVars, bootVars, queueVars>>]_vars

(***************************************************************************)
(* The window manager world (ecs/systems.rs, ecs/triggers.rs): Display     *)
(* entities, LayoutStrip entities and Window entities, driven by the       *)
(* events of the operating system.  A handler is an operator from the      *)
(* world W = [displays, strips, unmanaged] and the state o of the          *)
(* operating system to the world it leaves; the commands a handler queues  *)
(* and the observers they start are part of it.  Frames and the reshuffle  *)
(* and resize markers the handlers also request are left to SpecLayout.    *)
(***************************************************************************)
\* The elements of S in ascending order: the order queries iterate in.
RECURSIVE Ascending(_)
Ascending(S) ==
    IF S = {} THEN <<>>
    ELSE The({<<m>> \o Ascending(S \ {m}) :
                m \in {x \in S : \A y \in S : x <= y}})

World == [displays |-> displays, strips |-> strips, unmanaged |-> unmanaged]

\* WindowManagerApi::present_displays: the workspaces listed for display d.
WorkspacesOfDisplay(o, d) == {s \in o.workspaces : DisplayOfWorkspace(s) = d}

\* WindowManagerApi::windows_in_workspace
WindowsInWorkspace(o, s) == Ascending({w \in WMWindows : o.windows[w] = s})

\* Query<.., With<ActiveDisplayMarker>>
ActiveDisplays(W) == {d \in DOMAIN W.displays : W.displays[d]}

\* Query<.., With<ActiveWorkspaceMarker>>
ActiveStrips(W) == {e \in DOMAIN W.strips : W.strips[e].active}

\* ActiveDisplay / ActiveDisplayMut: both Single<> parameters must match
\* exactly one entity, or the system is skipped.
HasActiveDisplay(W) ==
    /\ Cardinality(ActiveDisplays(W)) = 1
    /\ Cardinality(ActiveStrips(W)) = 1

\* ActiveDisplayMut::active_strip
ActiveStrip(W) == The(ActiveStrips(W))

\* ActiveDisplayMut::other: the first display without the marker; 0 is None.
OtherDisplay(W) ==
    IF DOMAIN W.displays \ ActiveDisplays(W) = {} THEN 0
    ELSE Head(Ascending(DOMAIN W.displays \ ActiveDisplays(W)))

\* Windows::find_managed
FindManaged(W, w) == w \in DOMAIN W.unmanaged /\ W.unmanaged[w] = "None"

\* LayoutStrip::new
NewStrip(id, parent) ==
    [id |-> id, parent |-> parent, columns |-> <<>>, active |-> FALSE, timeout |-> FALSE,
     was |-> <<>>]

\* commands.spawn(LayoutStrip::new(id)) for each id, as children of `parent`.
RECURSIVE SpawnStrips(_, _, _)
SpawnStrips(ss, ids, parent) ==
    IF ids = <<>> THEN ss
    ELSE The({SpawnStrips(ss @@ (e :> NewStrip(Head(ids), parent)), Tail(ids), parent) :
                e \in {x \in StripEntities \ DOMAIN ss :
                        \A y \in StripEntities \ DOMAIN ss : x <= y}})

\* despawn of the strip entities E
Despawn(ss, E) == [e \in DOMAIN ss \ E |-> ss[e]]

\* The closure of active_workspace_trigger: every child strip drops the
\* window, and the ones of the workspace append it.
MoveToWorkspace(ss, w, workspace_id) ==
    [e \in DOMAIN ss |->
        IF ss[e].parent = 0 THEN ss[e]
        ELSE [ss[e] EXCEPT !.columns =
                IF ss[e].id = workspace_id
                THEN AppendWindow(Remove(@, w), w)
                ELSE Remove(@, w)]]

RECURSIVE MoveAllToWorkspace(_, _, _)
MoveAllToWorkspace(ss, moved, workspace_id) ==
    IF moved = <<>> THEN ss
    ELSE The({MoveAllToWorkspace(next, Tail(moved), workspace_id) :
                next \in {MoveToWorkspace(ss, Head(moved), workspace_id)}})

\* windows_not_in_strip
WindowsNotInStrip(W, o, e) ==
    SelectSeq(WindowsInWorkspace(o, W.strips[e].id),
              LAMBDA w : FindManaged(W, w) /\ ~InStrip(W.strips[e].columns, w))

\* active_workspace_trigger: On<Add, ActiveWorkspaceMarker> of strip e.
ActiveWorkspaceTrigger(W, o, e) ==
    IF W.strips[e].parent = 0 THEN W
    ELSE [W EXCEPT !.strips =
            MoveAllToWorkspace(@, WindowsNotInStrip(W, o, e), W.strips[e].id)]

RECURSIVE ActiveWorkspaceTriggers(_, _, _)
ActiveWorkspaceTriggers(W, o, added) ==
    IF added = <<>> THEN W
    ELSE The({ActiveWorkspaceTriggers(next, o, Tail(added)) :
                next \in {ActiveWorkspaceTrigger(W, o, Head(added))}})

\* workspace_change_trigger on SpaceChanged, with the observers of the
\* markers it inserts.
WorkspaceChangeTrigger(W, o) ==
    IF Cardinality(ActiveDisplays(W)) /= 1 THEN W
    ELSE IF The(ActiveDisplays(W)) \notin o.present THEN W
    ELSE The({ActiveWorkspaceTriggers(
                [W EXCEPT !.strips =
                    [e \in DOMAIN @ |->
                        [@[e] EXCEPT !.active = (W.strips[e].id = workspace_id)]]],
                o,
                Ascending({e \in DOMAIN W.strips :
                            ~W.strips[e].active /\ W.strips[e].id = workspace_id})) :
                workspace_id \in {o.active_space[The(ActiveDisplays(W))]}})

\* display_change_trigger on DisplayChanged; it ends by triggering SpaceChanged.
DisplayChangeTrigger(W, o) ==
    The({WorkspaceChangeTrigger(next, o) :
            next \in {[W EXCEPT !.displays =
                        [d \in DOMAIN @ |-> d = o.active_display]]}})

\* add_display
AddDisplay(W, o, display_id) ==
    IF display_id \notin o.present THEN W
    ELSE [W EXCEPT
            !.strips = SpawnStrips(@, Ascending(WorkspacesOfDisplay(o, display_id)),
                                   display_id),
            !.displays = (display_id :> FALSE) @@ @]

\* remove_display: the non-empty child strips are detached with a Timeout,
\* the empty ones are despawned with the display.  The field `was` is
\* history: the columns of the strip at the moment it was orphaned.
RemoveDisplay(W, display_id) ==
    IF display_id \notin DOMAIN W.displays THEN W
    ELSE [W EXCEPT
            !.strips =
                [e \in {x \in DOMAIN @ : @[x].parent /= display_id
                                         \/ Len(@[x].columns) /= 0} |->
                    IF @[e].parent = display_id
                    THEN [@[e] EXCEPT !.timeout = TRUE, !.parent = 0, !.was = W.strips[e].columns]
                    ELSE @[e]],
            !.displays = [d \in DOMAIN @ \ {display_id} |-> @[d]]]

\* gather_displays
RECURSIVE SpawnDisplays(_, _, _)
SpawnDisplays(ss, o, ds) ==
    IF ds = <<>> THEN ss
    ELSE The({SpawnDisplays(next, o, Tail(ds)) :
                next \in {SpawnStrips(ss, Ascending(WorkspacesOfDisplay(o, Head(ds))),
                                      Head(ds))}})

GatherDisplays(o) ==
    [displays |-> [d \in o.present |-> d = o.active_display],
     strips |-> The({[e \in DOMAIN ss |->
                        [ss[e] EXCEPT !.active =
                            (ss[e].id = o.active_space[o.active_display])]] :
                     ss \in {SpawnDisplays(<<>>, o, Ascending(o.present))}}),
     unmanaged |-> [w \in {x \in WMWindows : o.windows[x] /= 0} |-> "None"]]

\* finish_setup: every strip is refreshed from the windows of its workspace;
\* the windows of `minimized` (Window::is_minimized) get Unmanaged::Minimized
\* and stay out of the strips.
RECURSIVE AppendAll(_, _)
AppendAll(cols, ws) ==
    IF ws = <<>> THEN cols
    ELSE AppendAll(IF InStrip(cols, Head(ws)) THEN cols ELSE AppendWindow(cols, Head(ws)),
                   Tail(ws))

\* strip.remove(entity) for each window of ws that is not in `keep`
RECURSIVE RemoveAllBut(_, _, _)
RemoveAllBut(cols, ws, keep) ==
    IF ws = <<>> THEN cols
    ELSE RemoveAllBut(IF Head(ws) \in keep THEN cols ELSE Remove(cols, Head(ws)),
                      Tail(ws), keep)

\* A refresh that flushes the strip and lists the windows anew.
RefreshStripFlushed(cols, workspace_windows) == AppendAll(<<>>, workspace_windows)

\* finish_setup, the refresh of one strip: workspace_windows are the managed
\* windows of the workspace that are not minimized, as the OS lists them.
RefreshStrip(cols, workspace_windows) ==
    AppendAll(RemoveAllBut(cols, AllWindows(cols), Range(workspace_windows)),
              workspace_windows)

FinishSetup(W, o, minimized) ==
    [W EXCEPT
        !.unmanaged = [w \in DOMAIN @ |-> IF w \in minimized THEN "Minimized" ELSE @[w]],
        !.strips =
            [e \in DOMAIN @ |->
                [@[e] EXCEPT !.columns =
                    RefreshStrip(@, SelectSeq(WindowsInWorkspace(o, W.strips[e].id),
                                    LAMBDA w : FindManaged(W, w) /\ w \notin minimized))]]]

\* The first orphan with the id of child strip e; 0 when there is none.
MatchedOrphan(ss, e) ==
    IF \E x \in DOMAIN ss : ss[x].parent = 0 /\ ss[x].id = ss[e].id
    THEN Head(Ascending({x \in DOMAIN ss : ss[x].parent = 0 /\ ss[x].id = ss[e].id}))
    ELSE 0

\* find_orphaned_workspaces with the adopted orphan taking over the columns
\* of the strip it replaces.
FindOrphanedWorkspacesTakesChild(W) ==
    The({[W EXCEPT !.strips =
            [e \in DOMAIN @ \ matched |->
                IF \E c \in matched : MatchedOrphan(W.strips, c) = e
                THEN [@[e] EXCEPT
                        !.timeout = FALSE,
                        !.was = <<>>,
                        !.columns = W.strips[
                            CHOOSE c \in matched : MatchedOrphan(W.strips, c) = e].columns,
                        !.parent = W.strips[
                            CHOOSE c \in matched : MatchedOrphan(W.strips, c) = e].parent]
                ELSE @[e]]] :
         matched \in {{c \in DOMAIN W.strips :
                        /\ W.strips[c].parent /= 0
                        /\ MatchedOrphan(W.strips, c) /= 0}}})

\* find_orphaned_workspaces: an orphan whose id matches a child strip takes
\* the child's place under its display, and the child is despawned.  The
\* pairs are found before any command is applied.  The history field `was`
\* is kept on orphans only.
FindOrphanedWorkspaces(W) ==
    The({[W EXCEPT !.strips =
            [e \in DOMAIN @ \ matched |->
                IF \E c \in matched : MatchedOrphan(W.strips, c) = e
                THEN [@[e] EXCEPT
                        !.timeout = FALSE,
                        !.was = <<>>,
                        !.parent = W.strips[
                            CHOOSE c \in matched :
                                /\ MatchedOrphan(W.strips, c) = e
                                /\ \A c2 \in matched :
                                     MatchedOrphan(W.strips, c2) = e => c2 <= c].parent]
                ELSE @[e]]] :
         matched \in {{c \in DOMAIN W.strips :
                        /\ W.strips[c].parent /= 0
                        /\ MatchedOrphan(W.strips, c) /= 0}}})

\* window_unmanaged_trigger: On<Add, Unmanaged>
WindowUnmanagedTrigger(W, w) ==
    IF ~HasActiveDisplay(W) THEN W
    ELSE IF W.unmanaged[w] = "None" THEN W
    ELSE [W EXCEPT !.strips[ActiveStrip(W)].columns = Remove(@, w)]

\* window_managed_trigger: On<Remove, Unmanaged>
WindowManagedTrigger(W, w) ==
    IF ~HasActiveDisplay(W) THEN W
    ELSE [W EXCEPT !.strips[ActiveStrip(W)].columns = AppendWindow(@, w)]

\* commands.entity(w).try_insert(marker): observers of Add run only when
\* the entity had no Unmanaged component.
InsertUnmanaged(W, w, marker) ==
    IF w \notin DOMAIN W.unmanaged THEN W
    ELSE IF W.unmanaged[w] = "None"
    THEN The({WindowUnmanagedTrigger(next, w) :
                next \in {[W EXCEPT !.unmanaged[w] = marker]}})
    ELSE [W EXCEPT !.unmanaged[w] = marker]

\* commands.entity(w).try_remove::<Unmanaged>()
RemoveUnmanaged(W, w) ==
    IF w \notin DOMAIN W.unmanaged THEN W
    ELSE IF W.unmanaged[w] = "None" THEN W
    ELSE The({WindowManagedTrigger(next, w) :
                next \in {[W EXCEPT !.unmanaged[w] = "None"]}})

RECURSIVE InsertUnmanagedAll(_, _, _)
InsertUnmanagedAll(W, ws, marker) ==
    IF ws = <<>> THEN W
    ELSE The({InsertUnmanagedAll(next, Tail(ws), marker) :
                next \in {InsertUnmanaged(W, Head(ws), marker)}})

RECURSIVE RemoveUnmanagedAll(_, _)
RemoveUnmanagedAll(W, ws) ==
    IF ws = <<>> THEN W
    ELSE The({RemoveUnmanagedAll(next, Tail(ws)) :
                next \in {RemoveUnmanaged(W, Head(ws))}})

\* window_removal_trigger: On<Remove, Window>; the first strip that holds
\* the window drops it.
WindowRemovalTrigger(W, w) ==
    [W EXCEPT
        !.strips = IF \E e \in DOMAIN W.strips : InStrip(W.strips[e].columns, w)
                   THEN [@ EXCEPT ![Head(Ascending({e \in DOMAIN W.strips :
                                        InStrip(W.strips[e].columns, w)}))].columns =
                                    Remove(@, w)]
                   ELSE @,
        !.unmanaged = [x \in DOMAIN @ \ {w} |-> @[x]]]

\* window_destroyed_trigger
WindowDestroyedTrigger(W, w) ==
    IF w \notin DOMAIN W.unmanaged THEN W
    ELSE IF ~HasActiveDisplay(W) THEN W
    ELSE The({WindowRemovalTrigger(next, w) : next \in {RemoveUnmanaged(W, w)}})

\* spawn_window_trigger with apply_window_properties for a window without
\* configured properties; `focus` is the focused window, 0 when there is none.
SpawnWindowTrigger(W, w, focus) ==
    IF ~HasActiveDisplay(W) THEN W
    ELSE IF w \in DOMAIN W.unmanaged THEN W
    ELSE [W EXCEPT
            !.unmanaged = (w :> "None") @@ @,
            !.strips[ActiveStrip(W)].columns =
                IF InStrip(@, focus) /\ IndexOf(@, focus) < Len(@)
                THEN InsertAt(@, IndexOf(@, focus), w)
                ELSE AppendWindow(@, w)]

\* manage_window for the focused window w
ManageWindow(W, w) ==
    IF w \notin DOMAIN W.unmanaged THEN W
    ELSE IF W.unmanaged[w] /= "None" THEN RemoveUnmanaged(W, w)
    ELSE InsertUnmanaged(W, w, "Floating")

\* to_next_display for the focused window w
ToNextDisplay(W, w) ==
    IF ~HasActiveDisplay(W) THEN W
    ELSE IF ~FindManaged(W, w) THEN W
    ELSE IF OtherDisplay(W) = 0 THEN W
    ELSE [W EXCEPT !.strips[ActiveStrip(W)].columns = Remove(@, w)]

\* The state after Startup and finish_setup, for the displays, workspaces
\* and windows the operating system reports.
StartupStates ==
    {o \in [present : {{1}, {1, 2}},
            workspaces : {StartupWorkspaces},
            active_display : DisplayIds,
            active_space : {[d \in DisplayIds |-> IF d = 1 THEN 1 ELSE 3]},
            windows : [WMWindows -> {0} \cup StartupWorkspaces]] :
        /\ o.active_display \in o.present
        /\ \A w \in WMWindows :
             o.windows[w] /= 0 => DisplayOfWorkspace(o.windows[w]) \in o.present}

\* The number of columns of `cols` that hold window w.
RECURSIVE ColumnsHolding(_, _)
ColumnsHolding(cols, w) ==
    IF cols = <<>> THEN 0
    ELSE (IF w \in Range(Head(cols).ws) THEN 1 ELSE 0) + ColumnsHolding(Tail(cols), w)

\* The number of columns, over the strips E of ss, that hold window w.
RECURSIVE Occurrences(_, _, _)
Occurrences(ss, E, w) ==
    IF E = {} THEN 0
    ELSE The({ColumnsHolding(ss[e].columns, w) + Occurrences(ss, E \ {e}, w) :
                e \in {CHOOSE x \in E : TRUE}})

\* The world a handler leaves becomes the state.  Worlds that hold a window
\* in more than MaxOccurrences columns are beyond the bound of the model.
\* The windows that are members of a strip of ss.
Members(ss) == {w \in WMWindows : Occurrences(ss, DOMAIN ss, w) >= 1}

\* What `last` remembers of the world before an event: the Unmanaged
\* component of every window and the windows that are in a strip.
Before == [unmanaged |-> unmanaged, members |-> Members(strips)]

\* `note` is what `last` remembers of the event.
CommitAs(W, note) ==
    /\ \A w \in WMWindows : Occurrences(W.strips, DOMAIN W.strips, w) <= MaxOccurrences
    /\ displays' = W.displays
    /\ strips' = W.strips
    /\ unmanaged' = W.unmanaged
    /\ last' = note

Commit(W) == CommitAs(W, NoOp)

WMInit ==
    /\ StripIdle
    /\ BinIdle
    /\ AnimIdle
    /\ LayoutIdle
    /\ EventIdle
    /\ CmdIdle
    /\ PumpIdle
    /\ QueueIdle
    /\ BootIdle
    /\ LaunchIdle
    /\ DragIdle
    /\ os \in StartupStates
    /\ \E minimized \in SUBSET {w \in WMWindows : os.windows[w] /= 0} :
       \E W \in {FinishSetup(GatherDisplays(os), os, minimized)} :
        /\ displays = W.displays
        /\ strips = W.strips
        /\ unmanaged = W.unmanaged

\* The user switches to another Space of the active display, one that
\* exists already or one created now: Event::SpaceChanged.
SpaceChanged ==
    \E s \in {x \in WorkspaceIds : DisplayOfWorkspace(x) = os.active_display} :
        /\ s /= os.active_space[os.active_display]
        /\ \E o \in {[os EXCEPT !.active_space[os.active_display] = s,
                                !.workspaces = @ \cup {s}]} :
            /\ os' = o
            /\ Commit(WorkspaceChangeTrigger(World, o))

\* Another connected display becomes the active one: Event::DisplayChanged.
DisplayChanged ==
    \E d \in os.present \ {os.active_display} :
        \E o \in {[os EXCEPT !.active_display = d]} :
            /\ os' = o
            /\ Commit(DisplayChangeTrigger(World, o))

\* displays_rearranged on Event::DisplayAdded
DisplayAdded ==
    \E d \in DisplayIds \ os.present :
        /\ d \notin DOMAIN displays
        /\ Cardinality(StripEntities \ DOMAIN strips)
             >= Cardinality(WorkspacesOfDisplay(os, d))
        /\ \E o \in {[os EXCEPT !.present = @ \cup {d}]} :
            /\ os' = o
            /\ \E W \in {AddDisplay(World, o, d)} :
                Commit(DisplayChangeTrigger(W, o))

\* displays_rearranged on Event::DisplayRemoved; one display always stays
\* connected, and it is the active one afterwards.
DisplayRemoved ==
    \E d \in os.present :
        /\ os.present /= {d}
        /\ \E o \in {[os EXCEPT !.present = @ \ {d},
                                !.active_display =
                                    IF @ = d THEN The(os.present \ {d}) ELSE @]} :
            /\ os' = o
            /\ \E W \in {RemoveDisplay(World, d)} :
                Commit(DisplayChangeTrigger(W, o))

\* The orphans that a pass of find_orphaned_workspaces attaches again.
Adopted(ss) ==
    {e \in DOMAIN ss : \E c \in DOMAIN ss : ss[c].parent /= 0 /\ MatchedOrphan(ss, c) = e}

\* find_orphaned_workspaces, when both of its Populated<> queries match.
DoFindOrphanedWorkspaces ==
    /\ \E e \in DOMAIN strips : strips[e].parent = 0
    /\ \E e \in DOMAIN strips : strips[e].parent /= 0
    /\ CommitAs(FindOrphanedWorkspaces(World),
                IF Adopted(strips) = {} THEN NoOp
                ELSE [op |-> "adopt", w |-> 0, ok |-> TRUE,
                      pre |-> [e \in Adopted(strips) |->
                                [columns |-> strips[e].columns, was |-> strips[e].was]]])
    /\ UNCHANGED os

\* timeout_ticker: the Timeout of an orphaned strip has finished.
TimeoutTicker ==
    \E e \in DOMAIN strips :
        /\ strips[e].timeout
        /\ strips' = Despawn(strips, {e})
        /\ last' = NoOp
        /\ UNCHANGED <<os, displays, unmanaged>>

\* Event::WindowCreated: a window opens on the active Space.
WindowCreated ==
    \E w \in WMWindows :
        /\ os.windows[w] = 0
        /\ w \notin DOMAIN unmanaged
        /\ os' = [os EXCEPT !.windows[w] = os.active_space[os.active_display]]
        /\ \E focus \in {0} \cup DOMAIN unmanaged :
            Commit(SpawnWindowTrigger(World, w, focus))

\* Event::WindowDestroyed
WindowDestroyed ==
    \E w \in WMWindows :
        /\ os.windows[w] /= 0
        /\ os' = [os EXCEPT !.windows[w] = 0]
        /\ Commit(WindowDestroyedTrigger(World, w))

\* The windows that can have the focus: the ones on the visible Space.
Focusable ==
    {w \in DOMAIN unmanaged : os.windows[w] = os.active_space[os.active_display]}

\* dispatch_application_messages on Event::WindowMinimized
WindowMinimized ==
    \E w \in Focusable :
        /\ unmanaged[w] /= "Minimized"
        /\ Commit(InsertUnmanaged(World, w, "Minimized"))
        /\ UNCHANGED os

\* dispatch_application_messages on Event::WindowDeminimized
WindowDeminimized ==
    \E w \in DOMAIN unmanaged :
        /\ unmanaged[w] = "Minimized"
        /\ Commit(RemoveUnmanaged(World, w))
        /\ UNCHANGED os

\* dispatch_application_messages on Event::ApplicationHidden; the windows
\* are the children of one application.
ApplicationHidden ==
    /\ \E w \in DOMAIN unmanaged : unmanaged[w] /= "Hidden"
    /\ CommitAs(InsertUnmanagedAll(World,
                    Ascending({w \in DOMAIN unmanaged : unmanaged[w] = "None"}), "Hidden"),
                [op |-> "hidden", w |-> 0, ok |-> TRUE, pre |-> Before])
    /\ UNCHANGED os

\* dispatch_application_messages on Event::ApplicationVisible
ApplicationVisible ==
    /\ \E w \in DOMAIN unmanaged : unmanaged[w] = "Hidden"
    /\ CommitAs(RemoveUnmanagedAll(World,
                    Ascending({w \in DOMAIN unmanaged : unmanaged[w] = "Hidden"})),
                [op |-> "visible", w |-> 0, ok |-> last.op = "hidden",
                 pre |-> IF last.op = "hidden" THEN last.pre ELSE <<>>])
    /\ UNCHANGED os

\* Operation::Manage
DoManageWindow ==
    \E w \in Focusable :
        /\ Commit(ManageWindow(World, w))
        /\ UNCHANGED os

\* Operation::ToNextDisplay: the window also moves to the Space shown on
\* the other display.
DoToNextDisplay ==
    \E w \in Focusable :
        /\ HasActiveDisplay(World)
        /\ FindManaged(World, w)
        /\ OtherDisplay(World) /= 0
        /\ OtherDisplay(World) \in os.present
        /\ os' = [os EXCEPT !.windows[w] = os.active_space[OtherDisplay(World)]]
        /\ Commit(ToNextDisplay(World, w))

WMNext ==
    \/ SpaceChanged
    \/ DisplayChanged
    \/ DisplayAdded
    \/ DisplayRemoved
    \/ DoFindOrphanedWorkspaces
    \/ TimeoutTicker
    \/ WindowCreated
    \/ WindowDestroyed
    \/ WindowMinimized
    \/ WindowDeminimized
    \/ ApplicationHidden
    \/ ApplicationVisible
    \/ DoManageWindow
    \/ DoToNextDisplay

SpecWM == WMInit /\ [][WMNext /\ UNCHANGED <<columns, binVars, animVars, layoutVars, eventVars, cmdVars, pumpVars, dragVars, launchVars, bootVars, queueVars>>]_vars

(***************************************************************************)
(* Claims about the LayoutStrip operations, under SpecStrip.               *)
(***************************************************************************)
\* C3 as stated: whenever stack(w) returns Ok, w and the windows of the column
\* that was immediately left of w's column are in one Stack column, and the
\* strip has exactly one column fewer than before.
C3_StackMergesAlways ==
    (last.op = "stack" /\ last.ok) =>
        /\ Len(columns) = Len(last.pre) - 1
        /\ IndexOf(last.pre, last.w) > 1
        /\ ColumnOf(columns, last.w).stack
        /\ \A x \in Range(last.pre[IndexOf(last.pre, last.w) - 1].ws) :
              IndexOf(columns, x) = IndexOf(columns, last.w)

\* stack(w) has work to do: w is a Single column that is not the leftmost.
StackApplies(cols, w) ==
    /\ IndexOf(cols, w) > 1
    /\ ~ColumnOf(cols, w).stack

\* C3 amended: whenever stack(w) returns Ok for a w that was a Single column
\* other than the leftmost one, w is the last member of a Stack column that
\* also holds the windows of its former left neighbour column, and the strip
\* has exactly one column fewer; for a w in column 0 or already in a Stack
\* the call returns Ok and leaves the strip unchanged.
C3_StackMerges ==
    (last.op = "stack" /\ last.ok) =>
        IF StackApplies(last.pre, last.w)
        THEN /\ Len(columns) = Len(last.pre) - 1
             /\ ColumnOf(columns, last.w).stack
             /\ ColumnOf(columns, last.w).ws =
                    Append(last.pre[IndexOf(last.pre, last.w) - 1].ws, last.w)
             /\ \A x \in Range(last.pre[IndexOf(last.pre, last.w) - 1].ws) :
                   IndexOf(columns, x) = IndexOf(columns, last.w)
        ELSE columns = last.pre

C3_Witness ==
    /\ last.op = "stack"
    /\ last.ok
    /\ StackApplies(last.pre, last.w)
    /\ last.pre[IndexOf(last.pre, last.w) - 1].stack

\* C4: whenever unstack(w) returns Ok, w is afterwards a Single column; the
\* strip has one column more than before, except that the length is unchanged
\* when w had no stack partner (it was a Single column already).
C4_UnstackSingle ==
    (last.op = "unstack" /\ last.ok) =>
        /\ InStrip(columns, last.w)
        /\ ~ColumnOf(columns, last.w).stack
        /\ ColumnOf(columns, last.w).ws = <<last.w>>
        /\ IF ColumnOf(last.pre, last.w).stack
           THEN Len(columns) = Len(last.pre) + 1
           ELSE Len(columns) = Len(last.pre)

C4_Witness ==
    /\ last.op = "unstack"
    /\ last.ok
    /\ ColumnOf(last.pre, last.w).stack
    /\ Len(ColumnOf(last.pre, last.w).ws) = 2

\* The former stack partners of the window of the last unstack.
Partners == Range(ColumnOf(last.pre, last.w).ws) \ {last.w}

UnstackedFromStack ==
    /\ last.op = "unstack"
    /\ last.ok
    /\ ColumnOf(last.pre, last.w).stack

\* C5 as stated: unstack(w) of a stack member puts w immediately to the left
\* of the column of its former partners: index_of(w) + 1 = index_of(partner).
C5_UnstackLeftOfPartners ==
    UnstackedFromStack =>
        \A x \in Partners : IndexOf(columns, last.w) + 1 = IndexOf(columns, x)

\* C5 amended: unstack(w) of a stack member puts w immediately to the right
\* of the column of its former partners, which stays at the original index:
\* index_of(w) = index_of(partner) + 1.
C5_UnstackRightOfPartners ==
    UnstackedFromStack =>
        \A x \in Partners :
            /\ IndexOf(columns, x) = IndexOf(last.pre, last.w)
            /\ IndexOf(columns, last.w) = IndexOf(columns, x) + 1

C5_Witness ==
    /\ UnstackedFromStack
    /\ Cardinality(Partners) >= 2
    /\ IndexOf(last.pre, last.w) < Len(last.pre)

\* C6: after any sequence of strip operations every Stack column holds at
\* least two windows, every Single column exactly one, and no column is empty.
C6_NoSmallStacks ==
    \A i \in 1..Len(columns) :
        IF columns[i].stack THEN Len(columns[i].ws) >= 2 ELSE Len(columns[i].ws) = 1

\* A stack of two has just lost a member through remove and became a Single.
C6_Witness ==
    /\ last.op = "remove"
    /\ InStrip(last.pre, last.w)
    /\ ColumnOf(last.pre, last.w).stack
    /\ Len(ColumnOf(last.pre, last.w).ws) = 2
    /\ Len(columns) = Len(last.pre)

(***************************************************************************)
(* Claims about binpack_heights, under SpecBinpack.                        *)
(***************************************************************************)
\* C7 as stated: whenever binpack_heights(h, m, T) returns a result r, the
\* entries of r sum to T.
C7_SumIsTotal ==
    (bpOut.done /\ bpOut.some) => SumSeq(bpOut.r) = bpIn.total

\* C8 as stated: whenever binpack_heights(h, m, T) returns a result r, every
\* entry of r is at least m.
C8_MinRespected ==
    (bpOut.done /\ bpOut.some) =>
        \A i \in 1..Len(bpOut.r) : bpOut.r[i] >= bpIn.m

(***************************************************************************)
(* Claims about the animation systems, under SpecAnimFair.                 *)
(***************************************************************************)
NoMarkers ==
    \A w \in AnimWindows : ~repositionMarker[w].on /\ ~resizeMarker[w].on

\* C9 as stated: with the clock advancing by a fixed positive step per tick
\* and no further commands or events, every RepositionMarker and every
\* ResizeMarker is removed after finitely many ticks.  It is stated here for
\* the runs in which the display named by the markers exists, where the
\* systems do not skip the window.
C9_MarkersRemoved == (displayIds = {1}) => <>NoMarkers

(***************************************************************************)
(* Claims about the reshuffle engine, under SpecLayout.                    *)
(***************************************************************************)
\* The width of the strip: the sum of the widths of its columns.
StripWidth == AbsolutePosition(columns, Len(columns) + 1)

\* The width left for the strip: the display less the edge padding and less
\* the offset of a dock on its left or right side.
ViewportWidth ==
    DisplayBounds.w - (edgePadding.left + edgePadding.right)
        - (IF dock.kind \in {"Left", "Right"} THEN dock.offset ELSE 0)

\* C10 as stated: after ReshuffleAround(w) has been processed by the next
\* PostUpdate, the intended min.x of w, measured from the display's left
\* edge, lies within [pad_left, display.width - pad_right - width of w],
\* unless the strip is wider than the viewport.  (w is a window of the
\* active strip and the only one marked; the strip counts as wider than the
\* viewport already when it does not fit beside the dock.)
C10_ExposedWithinPadding ==
    (/\ last.op = "reshuffle"
     /\ Len(last.w) = 1
     /\ InStrip(columns, last.w[1])
     /\ StripWidth <= ViewportWidth)
    => LET fr == GetMovingWindowFrame(last.w[1]) IN
       /\ fr.x - DisplayBounds.x >= edgePadding.left
       /\ fr.x - DisplayBounds.x <= DisplayBounds.w - edgePadding.right - fr.w

(***************************************************************************)
(* Claims about the window manager world, under SpecWM.                    *)
(***************************************************************************)
\* C1 as stated: at the end of every tick, after any sequence of window,
\* application, workspace and display events, each window entity occurs in
\* at most one column of at most one strip.
C1_WindowInOneColumn ==
    \A w \in WMWindows : Occurrences(strips, DOMAIN strips, w) <= 1

\* C2 as stated: at every tick after initialization, exactly one Display
\* carries ActiveDisplayMarker and exactly one of that display's child
\* strips carries ActiveWorkspaceMarker.
C2_OneActiveDisplayAndWorkspace ==
    /\ Cardinality(ActiveDisplays(World)) = 1
    /\ Cardinality({e \in ActiveStrips(World) :
                        strips[e].parent \in ActiveDisplays(World)}) = 1

\* C11 as stated: when ApplicationVisible follows ApplicationHidden with no
\* event in between, a window that was neither Floating nor Minimized before
\* the pair carries no Unmanaged marker and is a member of a strip, and a
\* window that was Floating or Minimized carries that same marker.
C11_HideShowRestores ==
    (last.op = "visible" /\ last.ok) =>
        \A w \in DOMAIN last.pre.unmanaged :
            IF last.pre.unmanaged[w] \in {"Floating", "Minimized"}
            THEN unmanaged[w] = last.pre.unmanaged[w]
            ELSE /\ unmanaged[w] = "None"
                 /\ w \in Members(strips)

\* C12 as stated: at the end of every tick after initialization, no window
\* that carries an Unmanaged marker (Floating, Minimized or Hidden) is a
\* member of any strip, active or not.
C12_UnmanagedInNoStrip ==
    \A w \in DOMAIN unmanaged :
        unmanaged[w] /= "None" => w \notin Members(strips)

NonEdge(cols) ==
    {w \in 1..NumWindows : IndexOf(cols, w) > 1 /\ IndexOf(cols, w) < Len(cols)}

\* C14 (as stated): for every window w in neither the first nor the last
\* column, right_neighbour(left_neighbour(w)) is the window of w's own column
\* at the stack position of w, that is w itself.
C14_RightOfLeftIsSelf ==
    \A w \in NonEdge(columns) :
        RightNeighbour(columns, LeftNeighbour(columns, w)) = w

\* C14 (amended): for every window w in neither the first nor the last
\* column, right_neighbour(left_neighbour(w)) is the window of w's own column
\* at the smaller of w's stack position and the last position of the column
\* to the left.
C14_RightOfLeftClamped ==
    \A w \in NonEdge(columns) :
        LET index == IndexOf(columns, w)
            pos == PositionOf(columns[index], w)
            left == Len(columns[index - 1].ws)
        IN  RightNeighbour(columns, LeftNeighbour(columns, w)) =
                columns[index].ws[IF pos <= left THEN pos ELSE left]

\* C14 witness: a window of a middle column sits below the last position of
\* the column to its left.
C14_Witness ==
    \E w \in NonEdge(columns) :
        PositionOf(columns[IndexOf(columns, w)], w) >
            Len(columns[IndexOf(columns, w) - 1].ws)

\* The frame f was not moved by the clamp of calculate_layout: its x lies
\* strictly between the two limits.
Unclamped(f) ==
    /\ f.x > WINDOW_HIDDEN_THRESHOLD - f.w
    /\ f.x < clIn.width - WINDOW_HIDDEN_THRESHOLD

\* C15 (as stated): two calls of calculate_layout that differ in the offset
\* only yield frames for the same windows with the same widths, heights and
\* y, and the x of every window differs by exactly the difference of the
\* offsets.
C15_OffsetTranslates ==
    (last.op = "calculate_layout" /\ last.ok) =>
        /\ DOMAIN clOut = DOMAIN last.pre
        /\ \A v \in DOMAIN clOut :
            /\ clOut[v].w = last.pre[v].w
            /\ clOut[v].h = last.pre[v].h
            /\ clOut[v].y = last.pre[v].y
            /\ last.pre[v].x - clOut[v].x = clIn.offset - last.w

\* C15 (amended): two calls of calculate_layout that differ in the offset
\* only yield frames for the same windows with the same widths, heights and
\* y; the x of a window that the clamp moved in neither result differs by
\* exactly the difference of the offsets, and the x of no window differs by
\* more than that.
C15_OffsetTranslatesUnclamped ==
    (last.op = "calculate_layout" /\ last.ok) =>
        /\ DOMAIN clOut = DOMAIN last.pre
        /\ \A v \in DOMAIN clOut :
            /\ clOut[v].w = last.pre[v].w
            /\ clOut[v].h = last.pre[v].h
            /\ clOut[v].y = last.pre[v].y
            /\ (Unclamped(clOut[v]) /\ Unclamped(last.pre[v])) =>
                    last.pre[v].x - clOut[v].x = clIn.offset - last.w
            /\ Abs(last.pre[v].x - clOut[v].x) <= Abs(clIn.offset - last.w)

\* C15 witness: two calls with different offsets, one window translated and
\* another held by the clamp.
C15_Witness ==
    /\ last.op = "calculate_layout" /\ last.ok
    /\ clIn.offset /= last.w
    /\ \E v \in DOMAIN clOut : Unclamped(clOut[v]) /\ Unclamped(last.pre[v])
    /\ \E v \in DOMAIN clOut : ~Unclamped(clOut[v])

PassRan ==
    /\ last.op = "reshuffle"
    /\ \E i \in 1..Len(last.w) : InStrip(columns, last.w[i])

\* C17 (as stated): every reshuffle pass assigns a target frame to every
\* window of the active strip; no column and no member of a stack is left
\* without a target.
C17_EveryWindowTargeted ==
    PassRan => \A v \in Range(AllWindows(columns)) : v \in DOMAIN last.pre.targets

\* A reshuffle pass has just run around one window of the strip.
PassRanAround ==
    /\ last.op = "reshuffle"
    /\ Len(last.w) = 1
    /\ InStrip(columns, last.w[1])

\* C18 (as stated): a reshuffle around a window that repeats the reshuffle
\* around it, from a state without Reposition, Resize and ReshuffleAround
\* markers, inserts no Reposition and no Resize marker.
C18_SteadyReshuffleEmitsNothing ==
    (PassRanAround /\ last.pre.again) => last.pre.emitted = {}

\* C19: after a reshuffle around a window, two consecutive columns that are
\* both on screen are adjacent: the target x of the second is the target x
\* of the first plus the width of the first.
C19_OnScreenColumnsAdjacent ==
    PassRanAround =>
        \A i \in 1..(Len(columns) - 1) :
            LET a == Top(columns[i])
                b == Top(columns[i + 1])
            IN  (/\ a \in DOMAIN last.pre.lay /\ ~IsOffScreen(last.pre.lay[a])
                 /\ b \in DOMAIN last.pre.lay /\ ~IsOffScreen(last.pre.lay[b]))
                => last.pre.targets[b].x = last.pre.targets[a].x + last.pre.targets[a].w

\* C19 witness: three 400 wide columns were sent to x = 0, 400 and 800.
C19_Witness ==
    /\ PassRanAround
    /\ Len(columns) = 3
    /\ \A i \in 1..3 :
        /\ Top(columns[i]) \in DOMAIN last.pre.lay
        /\ ~IsOffScreen(last.pre.lay[Top(columns[i])])
        /\ last.pre.targets[Top(columns[i])].x = 400 * (i - 1)

EvWindows == {1, 2, 3}

StartWindows == {1, 2}

\* Most events that may wait in the channel and in Messages<Event> together
\* when the platform sends another one.
MaxPending == 2

\* A WindowParams rule as apply_window_properties reads it: index -1 is None.
NoRule == [floating |-> FALSE, dont_focus |-> FALSE, index |-> -1]

Rules == [floating : BOOLEAN, dont_focus : BOOLEAN, index : {-1, 100}]

\* An event; `echo` tells a WindowResized event that answers a resize the
\* program issued itself from one that answers the user.
Ev(type, id) == [type |-> type, id |-> id, rule |-> NoRule, echo |-> FALSE]

EvWorld ==
    [entities |-> entities, floating |-> floating, focused |-> focused,
     focusedId |-> focusedId, channel |-> channel, messages |-> messages,
     strayFocus |-> strayFocus, skipReshuffle |-> skipReshuffle,
     ffmFlag |-> ffmFlag, minimized |-> minimizedIds, columns |-> columns,
     marks |-> {}]

\* Windows::focused: Query::single, 0 is None.
FocusedWindow(V) == IF Cardinality(V.focused) = 1 THEN The(V.focused) ELSE 0

\* reshuffle_around
ReshuffleAroundIn(V, w) == [V EXCEPT !.marks = @ \cup {w}]

\* WindowApi::focus_with_raise as MockWindow has it.
FocusWithRaise(V, w) ==
    [V EXCEPT !.channel = Append(@, Ev("ApplicationFrontSwitched", 0)),
              !.focusedId = w]

\* window_focused_trigger that leaves the marker of the window that had
\* the focus where it is.
WindowFocusedTriggerKeeping(V, window_id, frontmost) ==
    IF window_id \notin V.entities
    THEN [V EXCEPT !.strayFocus = @ \cup {window_id}]
    ELSE [V EXCEPT !.focused = @ \cup {window_id}]

\* window_focused_trigger; frontmost is what Application::is_frontmost says.
WindowFocusedTrigger(V, window_id, frontmost) ==
    IF window_id \notin V.entities
    THEN [V EXCEPT !.strayFocus = @ \cup {window_id}]
    ELSE LET focus == FocusedWindow(V)
             moved == [V EXCEPT !.focused =
                          (@ \ {w \in @ : w = focus /\ w /= window_id}) \cup {window_id}]
         IN  IF ~frontmost THEN moved
             ELSE LET shuffled == IF ~V.skipReshuffle
                                  THEN ReshuffleAroundIn(moved, window_id)
                                  ELSE moved
                  IN  [shuffled EXCEPT
                          !.skipReshuffle = IF V.ffmFlag = 0 THEN FALSE ELSE @,
                          !.ffmFlag = 0]

\* front_switched_trigger
FrontSwitchedTrigger(V, frontmost) ==
    IF V.focusedId /= 0
    THEN WindowFocusedTrigger(V, V.focusedId, frontmost)
    ELSE IF FocusedWindow(V) /= 0
    THEN [V EXCEPT !.ffmFlag = 0, !.focused = @ \ {FocusedWindow(V)}]
    ELSE V

\* mouse_moved_trigger; enabled: focus_follows_mouse is set and Mission
\* Control is not active; window_id is the window at the point, 0 if there
\* is none.
MouseMovedTrigger(V, window_id, enabled) ==
    IF ~enabled THEN V
    ELSE IF V.ffmFlag /= 0 THEN V
    ELSE IF window_id = 0 THEN V
    ELSE IF FocusedWindow(V) = window_id THEN V
    ELSE IF window_id \notin V.entities THEN V
    ELSE LET flagged == [V EXCEPT !.skipReshuffle = TRUE, !.ffmFlag = window_id]
         IN  IF FocusedWindow(V) /= 0
             THEN flagged    \* focus_without_raise
             ELSE FocusWithRaise(flagged, window_id)

\* stray_focus_observer that despawns the record and sends nothing.
StrayFocusDropped(V, w) == [V EXCEPT !.strayFocus = @ \ {w}]

\* stray_focus_observer: On<Add, Window>
StrayFocusObserver(V, w) ==
    IF w \in V.strayFocus
    THEN [V EXCEPT !.messages = Append(@, Ev("WindowFocused", w)),
                   !.strayFocus = @ \ {w}]
    ELSE V

\* apply_window_properties, after initialization
ApplyWindowProperties(V, entity, rule) ==
    IF rule.floating THEN [V EXCEPT !.floating = @ \cup {entity}]
    ELSE LET focus == FocusedWindow(V)
             index == IF focus = 0 THEN 0 ELSE IndexOf(V.columns, focus)
             insert_at == IF rule.index /= -1 THEN rule.index
                          ELSE IF index /= 0 /\ index < Len(V.columns) THEN index
                          ELSE -1
             placed == [V EXCEPT !.columns = IF insert_at /= -1
                                             THEN InsertAt(@, insert_at, entity)
                                             ELSE AppendWindow(@, entity)]
         IN  IF rule.dont_focus
             THEN IF focus /= 0
                  THEN [FocusWithRaise(placed, focus) EXCEPT !.skipReshuffle = TRUE]
                  ELSE placed
             ELSE ReshuffleAroundIn(placed, entity)

\* spawn_window_trigger for one new window, with the observer that the
\* spawn of its entity runs.
SpawnWindowRuled(V, window_id, rule) ==
    IF window_id \in V.entities THEN V
    ELSE StrayFocusObserver(
            ApplyWindowProperties([V EXCEPT !.entities = @ \cup {window_id}],
                                  window_id, rule),
            window_id)

\* window_update_frame that reshuffles around the window of the event.
WindowUpdateFrameAroundResized(V, type, window_id) ==
    IF window_id \notin V.entities THEN V
    ELSE IF IndexOf(V.columns, window_id) = 0 THEN V
    ELSE IF type = "WindowResized" THEN ReshuffleAroundIn(V, window_id)
    ELSE V

\* window_update_frame for one WindowMoved or WindowResized event
WindowUpdateFrame(V, type, window_id) ==
    IF window_id \notin V.entities THEN V
    ELSE IF IndexOf(V.columns, window_id) = 0 THEN V
    ELSE IF type = "WindowResized"
    THEN ReshuffleAroundIn(V, IF FocusedWindow(V) /= 0 THEN FocusedWindow(V)
                              ELSE window_id)
    ELSE V

\* The window give_away_focus hands the focus of entity to: a neighbour in
\* the active strip, else the top window of its first column; 0 for none.
GiveAwayTarget(V, entity) ==
    LET left  == LeftNeighbour(V.columns, entity)
        other == IF left /= 0 THEN left ELSE RightNeighbour(V.columns, entity)
    IN  IF Len(V.columns) > 1 /\ other /= 0 THEN other
        ELSE IF V.columns /= <<>> THEN Top(V.columns[1])
        ELSE 0

\* What give_away_focus queues for the window `other` it has found: the
\* WindowFocused trigger and reshuffle_around, run on the world V the
\* handler has left.
GiveAwayFocus(V, other, frontmost) ==
    IF other = 0 THEN V
    ELSE ReshuffleAroundIn(WindowFocusedTrigger(V, other, frontmost), other)

\* window_managed_trigger: On<Remove, Unmanaged>
WindowManagedIn(V, entity) ==
    IF entity \in V.floating \cup V.minimized
    THEN ReshuffleAroundIn([V EXCEPT !.floating = @ \ {entity},
                                     !.minimized = @ \ {entity},
                                     !.columns = AppendWindow(@, entity)], entity)
    ELSE V

\* window_destroyed_trigger with the observers of the despawn.
WindowDestroyedIn(V, window_id, frontmost) ==
    IF window_id \notin V.entities THEN V
    ELSE LET other  == GiveAwayTarget(V, window_id)
             given  == GiveAwayFocus([V EXCEPT !.ffmFlag = IF other /= 0 THEN 0 ELSE @],
                                     other, frontmost)
             again  == WindowManagedIn(given, window_id)
         IN  [again EXCEPT !.columns = Remove(@, window_id),
                           !.entities = @ \ {window_id},
                           !.focused = @ \ {window_id}]

\* Event::WindowMinimized with window_unmanaged_trigger, which On<Add,
\* Unmanaged> runs for a window that carried no Unmanaged marker.
WindowMinimizedIn(V, window_id, frontmost) ==
    IF window_id \notin V.entities THEN V
    ELSE IF window_id \in V.minimized THEN V
    ELSE IF window_id \in V.floating
    THEN [V EXCEPT !.floating = @ \ {window_id}, !.minimized = @ \cup {window_id}]
    ELSE LET other == GiveAwayTarget(V, window_id) IN
         GiveAwayFocus([V EXCEPT !.ffmFlag = IF other /= 0 THEN 0 ELSE @,
                                 !.minimized = @ \cup {window_id},
                                 !.columns = Remove(@, window_id)],
                       other, frontmost)

\* The handler of an event.
Handle(V, e, flag) ==
    CASE e.type = "WindowFocused" -> WindowFocusedTrigger(V, e.id, flag)
      [] e.type = "WindowDestroyed" -> WindowDestroyedIn(V, e.id, flag)
      [] e.type = "WindowMinimized" -> WindowMinimizedIn(V, e.id, flag)
      [] e.type = "ApplicationFrontSwitched" -> FrontSwitchedTrigger(V, flag)
      [] e.type = "MouseMoved" -> MouseMovedTrigger(V, e.id, flag)
      [] e.type = "WindowCreated" -> SpawnWindowRuled(V, e.id, e.rule)
      [] OTHER -> WindowUpdateFrame(V, e.type, e.id)

EventInit ==
    /\ BinIdle
    /\ AnimIdle
    /\ LayoutIdle
    /\ WMIdle
    /\ CmdIdle
    /\ PumpIdle
    /\ QueueIdle
    /\ BootIdle
    /\ LaunchIdle
    /\ DragIdle
    /\ entities = StartWindows
    /\ floating = {}
    /\ columns \in {<<Single(1), Single(2)>>, <<StackOf(<<1, 2>>)>>}
    /\ focused \in {{}, {1}}
    /\ focusedId = IF focused = {} THEN 0 ELSE The(focused)
    /\ channel = <<>>
    /\ messages = <<>>
    /\ strayFocus = {}
    /\ skipReshuffle = FALSE
    /\ ffmFlag = 0
    /\ minimizedIds = {}
    /\ last = NoOp

\* What `last` carries from event to event: `kept` is the window that had
\* the FocusedMarker when a window `born` was spawned under a dont_focus
\* rule, for as long as the platform has sent nothing since.
Carried == IF last.op = "none" THEN [kept |-> 0, born |-> 0]
           ELSE [kept |-> last.pre.kept, born |-> last.pre.born]

\* The events that wait behind the oldest message are all WindowFocused
\* events of window id.
OnlyFocusOf(id) ==
    \A e \in Range(Tail(messages) \o channel) : e = Ev("WindowFocused", id)

\* The platform sends an event.
Send(e) ==
    /\ Len(channel) + Len(messages) < MaxPending
    /\ channel' = Append(channel, e)
    /\ last' = [op |-> "sent", w |-> e.id, ok |-> TRUE,
                pre |-> [kept |-> 0, born |-> 0, marks |-> {},
                         skipReshuffle |-> skipReshuffle, ffmFlag |-> ffmFlag,
                         focused |-> focused, echo |-> e.echo,
                         stray |-> strayFocus]]
    /\ UNCHANGED <<columns, entities, floating, focused, messages, strayFocus,
                   skipReshuffle, ffmFlag, minimizedIds>>

\* The user or an application gives a window the keyboard focus.
OSWindowFocused ==
    \E id \in EvWindows :
        /\ Send(Ev("WindowFocused", id))
        /\ focusedId' = id

OSMouseMoved ==
    \E id \in StartWindows \cup {0} :
        /\ Send(Ev("MouseMoved", id))
        /\ UNCHANGED focusedId

OSWindowCreated ==
    \E id \in EvWindows \ entities, rule \in Rules :
        /\ Send([Ev("WindowCreated", id) EXCEPT !.rule = rule])
        /\ UNCHANGED focusedId

OSWindowChanged ==
    \E id \in EvWindows, type \in {"WindowMoved", "WindowResized"} :
        /\ Send(Ev(type, id))
        /\ UNCHANGED focusedId

\* animate_resize_windows resizes a window (Window::resize), and the
\* platform answers with a WindowResized event for it.
AnimateResizeEcho ==
    \E id \in entities :
        /\ Send([Ev("WindowResized", id) EXCEPT !.echo = TRUE])
        /\ UNCHANGED focusedId

\* pump_events: the channel is drained into Messages<Event>.
PumpEvents ==
    /\ channel /= <<>>
    /\ messages' = messages \o channel
    /\ channel' = <<>>
    /\ UNCHANGED <<columns, last, entities, floating, focused, focusedId,
                   strayFocus, skipReshuffle, ffmFlag, minimizedIds>>

\* The oldest message is dispatched to its handler.
Dispatch ==
    /\ messages /= <<>>
    /\ \E flag \in BOOLEAN :
       \E e \in {Head(messages)} :
       \E V \in {Handle([EvWorld EXCEPT !.messages = Tail(messages)], e, flag)} :
        /\ entities' = V.entities
        /\ floating' = V.floating
        /\ focused' = V.focused
        /\ focusedId' = V.focusedId
        /\ channel' = V.channel
        /\ messages' = V.messages
        /\ strayFocus' = V.strayFocus
        /\ skipReshuffle' = V.skipReshuffle
        /\ ffmFlag' = V.ffmFlag
        /\ minimizedIds' = V.minimized
        /\ columns' = V.columns
        /\ last' = [op |-> e.type, w |-> e.id, ok |-> flag,
                    pre |-> [kept |-> IF e.type = "WindowCreated" /\ e.id \notin entities
                                      THEN IF e.rule.dont_focus /\ OnlyFocusOf(e.id)
                                           THEN FocusedWindow(EvWorld) ELSE 0
                                      ELSE Carried.kept,
                             born |-> IF e.type = "WindowCreated" /\ e.id \notin entities
                                      THEN IF /\ e.rule.dont_focus
                                              /\ OnlyFocusOf(e.id)
                                              /\ FocusedWindow(EvWorld) /= 0
                                           THEN e.id ELSE 0
                                      ELSE Carried.born,
                             marks |-> V.marks,
                             skipReshuffle |-> skipReshuffle, ffmFlag |-> ffmFlag,
                             focused |-> focused, echo |-> e.echo,
                             stray |-> strayFocus]]

\* A window is closed or minimized.
OSWindowGone ==
    \E id \in EvWindows, type \in {"WindowDestroyed", "WindowMinimized"} :
        /\ Send(Ev(type, id))
        /\ UNCHANGED focusedId

\* timeout_ticker: the Timeout of a StrayFocusEvent has finished and the
\* entity is despawned.
StrayTimeout ==
    \E id \in strayFocus :
        /\ strayFocus' = strayFocus \ {id}
        /\ last' = [op |-> "timeout", w |-> id, ok |-> TRUE,
                    pre |-> [kept |-> 0, born |-> 0, marks |-> {},
                             skipReshuffle |-> skipReshuffle, ffmFlag |-> ffmFlag,
                             focused |-> focused, echo |-> FALSE,
                             stray |-> strayFocus]]
        /\ UNCHANGED <<columns, entities, floating, focused, focusedId, channel,
                       messages, skipReshuffle, ffmFlag, minimizedIds>>

EventNext ==
    \/ OSWindowFocused
    \/ OSMouseMoved
    \/ OSWindowCreated
    \/ OSWindowChanged
    \/ AnimateResizeEcho
    \/ PumpEvents
    \/ Dispatch

SpecEvents == EventInit /\ [][EventNext /\ UNCHANGED <<binVars, animVars, layoutVars, wmVars, cmdVars, pumpVars, dragVars, launchVars, bootVars, queueVars>>]_vars

\* The events that move the FocusedMarker, with windows that are closed,
\* or minimized and focus events whose retry runs out of time.  The
\* windows are opened without a rule, on a strip of single columns.
FocusInit ==
    /\ EventInit
    /\ columns = <<Single(1), Single(2)>>

OSWindowOpened ==
    \E id \in EvWindows \ entities :
        /\ Send(Ev("WindowCreated", id))
        /\ UNCHANGED focusedId

FocusNext ==
    \/ OSWindowFocused
    \/ OSMouseMoved
    \/ OSWindowOpened
    \/ OSWindowGone
    \/ StrayTimeout
    \/ PumpEvents
    \/ Dispatch

SpecFocus == FocusInit /\ [][FocusNext /\ UNCHANGED <<binVars, animVars, layoutVars, wmVars, cmdVars, pumpVars, dragVars, launchVars, bootVars, queueVars>>]_vars

(***************************************************************************)
(* Claims about the event handlers, under SpecEvents.                      *)
(***************************************************************************)
\* The events are all handled and no focus event waits for its window.
Settled == channel = <<>> /\ messages = <<>> /\ strayFocus = {}

\* C21 as stated: when a window was spawned under a rule with dont_focus =
\* true while a window w carried the FocusedMarker, the platform had sent
\* no event but the new window's own focus events and sends nothing
\* afterwards, then once every event is handled the FocusedMarker is on w
\* and on no other window.
C21_FocusStaysAfterDontFocus ==
    (last.op \notin {"none", "sent"} /\ last.pre.born /= 0 /\ Settled) =>
        focused = {last.pre.kept}

\* The same for the rules that do not make the window floating.
C21_FocusStaysTiled ==
    (last.op \notin {"none", "sent"} /\ last.pre.born /= 0 /\ Settled
        /\ last.pre.born \notin floating) =>
        focused = {last.pre.kept}

\* A tiled window was spawned under dont_focus after its own focus event
\* had arrived, and the events are all handled.
C21_TiledWitness ==
    /\ last.op = "ApplicationFrontSwitched"
    /\ last.pre.born /= 0
    /\ last.pre.born \notin floating
    /\ \E w \in EvWindows : last.pre.focused = {last.pre.born} /\ focused = {last.pre.kept}
    /\ Settled

(***************************************************************************)
(* finish_setup on one strip (systems.rs:217-301).  While the program      *)
(* initializes every window it finds is put into the active strip; the     *)
(* strip a refresh starts from is any strip over the window entities.      *)
(***************************************************************************)
\* The window entities; ListedOnly is a window the OS lists that has no entity.
SetupWindows == {1, 2, 3}

ListedOnly == 4

\* windows_in_workspace(strip.id()): the ids in the order the OS gives them.
Listings == UNION {Perms(T) : T \in SUBSET (SetupWindows \cup {ListedOnly})}

SetupInit ==
    /\ columns \in StripsOver(SetupWindows)
    /\ last = NoOp
    /\ BinIdle
    /\ AnimIdle
    /\ LayoutIdle
    /\ WMIdle
    /\ EventIdle
    /\ CmdIdle
    /\ PumpIdle
    /\ QueueIdle
    /\ BootIdle
    /\ LaunchIdle
    /\ DragIdle

\* The filter_map / filter of finish_setup: the listed windows that
\* find_managed yields and that are not minimized.
WorkspaceWindows(listed, managed, minimized) ==
    SelectSeq(listed, LAMBDA w : w \in managed /\ w \notin minimized)

\* finish_setup refreshes the strip from a listing; `managed` are the
\* windows without the Unmanaged component, `minimized` those among them for
\* which Window::is_minimized holds.  The system runs while the Initializing
\* resource exists and removes it: it refreshes the strip once.
DoFinishSetup ==
    \E listed \in Listings, managed \in SUBSET SetupWindows :
    \E minimized \in SUBSET managed :
        /\ last.op = "none"
        /\ columns' = RefreshStrip(columns, WorkspaceWindows(listed, managed, minimized))
        /\ last' = [op |-> "finish_setup", w |-> listed, ok |-> TRUE,
                    pre |-> [columns |-> columns, managed |-> managed,
                             minimized |-> minimized]]

SetupNext == DoFinishSetup

SpecSetup == SetupInit /\ [][SetupNext /\ UNCHANGED <<binVars, animVars, layoutVars, wmVars, eventVars, cmdVars, pumpVars, dragVars, launchVars, bootVars, queueVars>>]_vars

\* The windows of sequence s that are in set S, in the order of s.
Restrict(s, S) == SelectSeq(s, LAMBDA w : w \in S)

CmdWindows == {1, 2, 3}

Directions == {"West", "East", "First", "Last", "North", "South"}

\* get_window_in_direction; 0 stands for None.
GetWindowInDirection(direction, entity, cols) ==
    LET index == IndexOf(cols, entity) IN
    IF index = 0 THEN 0
    ELSE CASE direction = "West" -> LeftNeighbour(cols, entity)
           [] direction = "East" -> RightNeighbour(cols, entity)
           [] direction = "First" -> Top(cols[1])
           [] direction = "Last" -> Top(cols[Len(cols)])
           [] direction = "North" ->
                IF ~cols[index].stack THEN 0
                ELSE IF PositionOf(cols[index], entity) > 1
                THEN cols[index].ws[PositionOf(cols[index], entity) - 1]
                ELSE 0
           [] OTHER ->
                IF ~cols[index].stack THEN 0
                ELSE IF PositionOf(cols[index], entity) < Len(cols[index].ws)
                THEN cols[index].ws[PositionOf(cols[index], entity) + 1]
                ELSE 0

\* (index..new_index).for_each(|idx| strip.swap(idx, idx + 1))
RECURSIVE SwapUp(_, _, _)
SwapUp(cols, idx, new_index) ==
    IF idx >= new_index THEN cols
    ELSE SwapUp(Swap(cols, idx, idx + 1), idx + 1, new_index)

\* (new_index..index).rev().for_each(|idx| strip.swap(idx, idx + 1))
RECURSIVE SwapDown(_, _, _)
SwapDown(cols, new_index, idx) ==
    IF idx < new_index THEN cols
    ELSE SwapDown(Swap(cols, idx, idx + 1), new_index, idx - 1)

\* A move that exchanges the two columns in one swap.
MoveColumnExchanged(cols, index, new_index) == Swap(cols, index, new_index)

\* command_swap_focus: the column at index is taken to new_index.
MoveColumn(cols, index, new_index) ==
    IF index < new_index THEN SwapUp(cols, index, new_index)
    ELSE SwapDown(cols, new_index, index - 1)

\* command_swap_focus, the origin the focused window is sent to.
SwapOrigin(cols, current, new_index) ==
    IF new_index = 1 THEN Vec(0, 0)
    ELSE IF new_index = Len(cols)
    THEN Vec(DisplayBounds.w - frame[current].w, 0)
    ELSE Vec(frame[Top(cols[new_index])].x, frame[Top(cols[new_index])].y)

CmdFrames == {[w \in CmdWindows |-> Rect(100 * (w - 1), TEST_MENUBAR_HEIGHT, 400, 300)]}

\* The sequence q cut into columns of the given sizes.
RECURSIVE Cut(_, _)
Cut(q, sizes) ==
    IF sizes = <<>> THEN <<>>
    ELSE <<IF Head(sizes) = 1 THEN Single(q[1]) ELSE StackOf(SubSeq(q, 1, Head(sizes)))>>
         \o Cut(SubSeq(q, Head(sizes) + 1, Len(q)), Tail(sizes))

\* The strips that hold every window of CmdWindows, in columns of at most
\* two windows.
CmdStrips ==
    {Cut(q, sizes) : q \in Perms(CmdWindows),
                     sizes \in {<<1, 1, 1>>, <<2, 1>>, <<1, 2>>}}

CmdInit ==
    /\ columns \in CmdStrips
    /\ frame \in CmdFrames
    /\ focused = {1}
    /\ dock = NoDock
    /\ edgePadding = [top |-> 0, right |-> 30, bottom |-> 0, left |-> 20]
    /\ fullWidthMarker = [w \in CmdWindows |-> 0]
    /\ last = NoOp
    /\ repositionMarker = [w \in DOMAIN frame |-> NoReposition]
    /\ resizeMarker = [w \in DOMAIN frame |-> NoResize]
    /\ displayIds = {TEST_DISPLAY_ID}
    /\ moveDelta = FastMoveDelta
    /\ elapsed = 0
    /\ reshuffle = {}
    /\ clIn = [offset |-> 0, width |-> 0, height |-> 0]
    /\ clOut = <<>>
    /\ BinIdle
    /\ WMIdle
    /\ entities = {}
    /\ floating = {}
    /\ focusedId = 0
    /\ channel = <<>>
    /\ messages = <<>>
    /\ strayFocus = {}
    /\ skipReshuffle = FALSE
    /\ ffmFlag = 0
    /\ minimizedIds = {}
    /\ PumpIdle
    /\ QueueIdle
    /\ BootIdle
    /\ LaunchIdle
    /\ DragIdle

\* command_swap_focus for Operation::Swap(direction).  There is no other
\* display to take the window to.
CommandSwapFocus ==
    \E direction \in Directions :
    \E current \in focused :
    \E other \in {GetWindowInDirection(direction, current, columns)} :
        /\ Cardinality(focused) = 1
        /\ reshuffle = {}
        /\ IF IndexOf(columns, current) /= 0 /\ other /= 0
           THEN \E index \in {IndexOf(columns, current)},
                   new_index \in {IndexOf(columns, other)} :
                    /\ repositionMarker' =
                          [repositionMarker EXCEPT ![current] =
                              [on |-> TRUE,
                               origin |-> SwapOrigin(columns, current, new_index),
                               display_id |-> TEST_DISPLAY_ID]]
                    /\ columns' = MoveColumn(columns, index, new_index)
                    /\ reshuffle' = reshuffle \cup {current}
           ELSE UNCHANGED <<repositionMarker, columns, reshuffle>>
        /\ last' = [op |-> "swap", w |-> current,
                    ok |-> IndexOf(columns, current) /= 0 /\ other /= 0,
                    pre |-> [columns |-> columns, other |-> other]]
        /\ UNCHANGED <<frame, resizeMarker, displayIds, moveDelta, elapsed, dock,
                       edgePadding, clIn, clOut, focused, fullWidthMarker>>

\* f64::round of the quotient a / b of two positive integers.
RoundDiv(a, b) == (2 * a + b) \div (2 * b)

\* full_width_window for Operation::FullWidth.  The width_ratio of a window
\* is its width over the width of the display (windows.rs:339).
FullWidthWindow ==
    \E entity \in focused :
    \E display_width \in {DisplayBounds.w} :
    \E padded_width \in {display_width - edgePadding.left - edgePadding.right} :
    \E previous \in {fullWidthMarker[entity]} :
    \E w \in {RoundDiv(previous * padded_width, display_width)} :
    \E width \in {IF previous /= 0 THEN w ELSE padded_width} :
    \E x \in {IF previous /= 0
              THEN Min(display_width - edgePadding.right - w, frame[entity].x)
              ELSE edgePadding.left} :
        /\ Cardinality(focused) = 1
        /\ reshuffle = {}
        /\ fullWidthMarker' = [fullWidthMarker EXCEPT ![entity] =
                                  IF previous /= 0 THEN 0 ELSE frame[entity].w]
        /\ repositionMarker' =
              [repositionMarker EXCEPT ![entity] =
                  [on |-> TRUE, origin |-> AbsoluteCoords(Vec(x, frame[entity].y)),
                   display_id |-> TEST_DISPLAY_ID]]
        /\ resizeMarker' =
              IF width <= 0 \/ frame[entity].h <= 0 THEN resizeMarker
              ELSE [resizeMarker EXCEPT ![entity] =
                      [on |-> TRUE, size |-> Vec(width, frame[entity].h),
                       display_id |-> TEST_DISPLAY_ID]]
        /\ reshuffle' = reshuffle \cup {entity}
        /\ last' = [op |-> "full_width", w |-> entity, ok |-> previous = 0,
                    pre |-> [columns |-> columns, previous |-> previous]]
        /\ UNCHANGED <<columns, frame, displayIds, moveDelta, elapsed, dock,
                       edgePadding, clIn, clOut, focused>>

\* The PostUpdate schedule of the tick.
CmdPostUpdate == PostUpdate /\ UNCHANGED <<focused, fullWidthMarker>>

CmdNext ==
    \/ CommandSwapFocus
    \/ FullWidthWindow
    \/ CmdPostUpdate

SpecCommands ==
    CmdInit /\ [][CmdNext /\ UNCHANGED <<binVars, wmVars, entities, floating, focusedId,
                                         channel, messages, strayFocus, skipReshuffle,
                                         ffmFlag, minimizedIds, pumpVars, dragVars, launchVars, bootVars, queueVars>>]_vars

(***************************************************************************)
(* Claims about the window commands, under SpecCommands.                   *)
(***************************************************************************)
\* C23: a Swap command that takes the focused window's column from index i
\* to index j leaves the strip equal to the original with that one column
\* removed and inserted again at index j, j being the column of the window
\* found in the direction of the command.
C23_SwapMovesOneColumn ==
    (last.op = "swap" /\ last.ok) =>
        LET i == IndexOf(last.pre.columns, last.w)
            j == IndexOf(last.pre.columns, last.pre.other)
        IN  /\ IndexOf(columns, last.w) = j
            /\ columns = InsertBefore(RemoveAt(last.pre.columns, i), j, last.pre.columns[i])

\* A swap took a column past two others.
C23_Witness ==
    /\ last.op = "swap" /\ last.ok
    /\ IndexOf(columns, last.w) - IndexOf(last.pre.columns, last.w) \in {-2, 2}

\* C24 as stated: FullWidth on a focused window that is a member of a Stack
\* unstacks it, so that it is a Single column, and sends it to the width
\* padded_width at x = pad_left; FullWidth on a window that carries the
\* FullWidthMarker takes the marker off and sends the window back to the
\* width of its previous ratio.
C24_FullWidthUnstacks ==
    (last.op = "full_width") =>
        LET padded_width == DisplayBounds.w - edgePadding.left - edgePadding.right IN
        IF last.pre.previous = 0
        THEN ColumnOf(last.pre.columns, last.w).stack =>
                /\ ~ColumnOf(columns, last.w).stack
                /\ fullWidthMarker[last.w] /= 0
                /\ resizeMarker[last.w].on
                /\ resizeMarker[last.w].size.x = padded_width
                /\ repositionMarker[last.w].on
                /\ repositionMarker[last.w].origin.x = edgePadding.left
        ELSE /\ fullWidthMarker[last.w] = 0
             /\ resizeMarker[last.w].on
             /\ resizeMarker[last.w].size.x =
                   RoundDiv(last.pre.previous * padded_width, DisplayBounds.w)

(***************************************************************************)
(* More claims about the event handlers, under SpecEvents.                 *)
(***************************************************************************)
\* C25 as stated: when MouseMoved has set SkipReshuffle and ffm_flag, the
\* next WindowFocused event (of a window that has an entity and whose
\* application is frontmost) triggers no reshuffle and leaves ffm_flag None
\* and SkipReshuffle false.
C25_FocusConsumesMouseFlags ==
    (/\ last.op = "WindowFocused"
     /\ last.w \in entities
     /\ last.ok
     /\ last.pre.skipReshuffle
     /\ last.pre.ffmFlag /= 0) =>
        /\ last.pre.marks = {}
        /\ ffmFlag = 0
        /\ ~skipReshuffle

\* C26 as stated: the reshuffle that follows a WindowResized event of a
\* window in the active strip is anchored on the focused window, never on
\* another one; WindowMoved requests no reshuffle.
C26_ResizeReshufflesAroundFocus ==
    /\ (last.op = "WindowResized" /\ IndexOf(columns, last.w) /= 0) =>
            /\ last.pre.marks /= {}
            /\ last.pre.marks \subseteq focused
    /\ (last.op = "WindowMoved") => last.pre.marks = {}

\* C26 amended: the reshuffle is anchored on the window that carries the
\* FocusedMarker when there is one, and on the resized window itself when no
\* window is focused; WindowMoved requests no reshuffle.
C26_ResizeReshufflesAroundFocusOrSelf ==
    /\ (last.op = "WindowResized" /\ IndexOf(columns, last.w) /= 0) =>
            last.pre.marks = IF Cardinality(focused) = 1 THEN focused ELSE {last.w}
    /\ (last.op = "WindowMoved") => last.pre.marks = {}

\* A window of the strip other than the focused one was resized.
C26_Witness ==
    /\ last.op = "WindowResized"
    /\ IndexOf(columns, last.w) /= 0
    /\ focused /= {}
    /\ last.w \notin focused
    /\ last.pre.marks = focused

\* C27 as stated: a WindowResized event that answers a resize the program
\* issued itself triggers no reshuffle.
C27_EchoTriggersNoReshuffle ==
    (last.op = "WindowResized" /\ last.pre.echo) => last.pre.marks = {}

(***************************************************************************)
(* Markers and animation within one tick, under SpecCommands: a command   *)
(* in Update, then reshuffle_layout_strip and the two animation systems   *)
(* in PostUpdate (ecs.rs:89-96).                                           *)
(***************************************************************************)
\* b is the target t, or nearer to it than a.
Towards(a, b, t) ==
    \/ b = t
    \/ (t.x - b.x) * (t.x - b.x) + (t.y - b.y) * (t.y - b.y)
         < (t.x - a.x) * (t.x - a.x) + (t.y - a.y) * (t.y - a.y)

\* The markers the windows carry when the animation systems of this
\* PostUpdate step run: those of the commands and of the reshuffle pass.
TickMarkers ==
    ReshuffleLayoutStrip(columns,
                         IF last'.op = "reshuffle" THEN last'.w ELSE <<>>,
                         repositionMarker, resizeMarker)

\* This step is a PostUpdate schedule; each one advances the clock.
IsPostUpdate == last'.op \in {"reshuffle", "tick"}

LOOP_MAX_TIMEOUT_MS == 500

LOOP_TIMEOUT_STEP == 1

\* The kinds of events the platform threads send.
PumpKinds == {"ApplicationLaunched", "InitialConfig", "ProcessesLoaded", "Exit",
              "WindowFocused"}

\* The loop of gather_initial_processes on the buffered events ch: the
\* events taken (n), whether the loop was left by Event::Exit, whether
\* recv() failed because the buffer was empty and no Sender is left, and
\* whether it waits for more events.
RECURSIVE GatherLoop(_, _)
GatherLoop(ch, n) ==
    IF ch = <<>>
    THEN [rest |-> ch, n |-> n, exit |-> FALSE,
          failed |-> ~connected, blocked |-> connected]
    ELSE IF Head(ch).type \in {"ProcessesLoaded", "Exit"}
    THEN [rest |-> Tail(ch), n |-> n + 1, exit |-> Head(ch).type = "Exit",
          failed |-> FALSE, blocked |-> FALSE]
    ELSE GatherLoop(Tail(ch), n + 1)

\* The loop of pump_events on the buffered events ch with the timeout t:
\* the events written, the events left, the new timeout, and whether
\* AppExit was written, for Event::Exit or for a disconnected channel.
RECURSIVE PumpLoop(_, _, _)
PumpLoop(ch, t, written) ==
    IF ch = <<>>
    THEN IF connected
         THEN [rest |-> ch, written |-> written, exit |-> FALSE, disconnected |-> FALSE,
               timeout |-> Min(t, LOOP_MAX_TIMEOUT_MS) + LOOP_TIMEOUT_STEP]
         ELSE [rest |-> ch, written |-> written, exit |-> TRUE, disconnected |-> TRUE,
               timeout |-> t]
    ELSE IF Head(ch).type = "Exit"
    THEN [rest |-> Tail(ch), written |-> written, exit |-> TRUE, disconnected |-> FALSE,
          timeout |-> t]
    ELSE PumpLoop(Tail(ch), LOOP_TIMEOUT_STEP, Append(written, Head(ch)))

PumpInit ==
    /\ pumpTimeout = 0
    /\ phase = "startup"
    /\ connected = TRUE
    /\ StripIdle
    /\ BinIdle
    /\ AnimIdle
    /\ LayoutIdle
    /\ WMIdle
    /\ EventIdle
    /\ CmdIdle
    /\ DragIdle
    /\ LaunchIdle
    /\ BootIdle
    /\ QueueIdle

\* A platform thread sends an event (EventSender::send).
PlatformSend ==
    \E type \in PumpKinds :
        /\ phase \in {"startup", "running"}
        /\ connected
        /\ Len(channel) < MaxPending
        /\ channel' = Append(channel, Ev(type, 0))
        /\ UNCHANGED <<messages, last, pumpVars>>

\* The last Sender is dropped.
Disconnect ==
    /\ phase \in {"startup", "running"}
    /\ connected
    /\ connected' = FALSE
    /\ UNCHANGED <<channel, messages, last, pumpTimeout, phase>>

\* gather_initial_processes: it returns after ProcessesLoaded or Exit, and
\* `expect` panics when recv() fails.
GatherInitialProcesses ==
    \E g \in {GatherLoop(channel, 0)} :
        /\ phase = "startup"
        /\ ~g.blocked
        /\ channel' = g.rest
        /\ phase' = IF g.failed THEN "panicked" ELSE "running"
        /\ last' = [op |-> "gather", w |-> g.n, ok |-> g.exit,
                    pre |-> [timeout |-> pumpTimeout, disconnected |-> g.failed]]
        /\ UNCHANGED <<messages, pumpTimeout, connected>>

\* One iteration of the runner: pump_events in PreUpdate, the rest of the
\* schedules, which read the events written, and the runner's look at
\* AppExit.
PumpEventsTick ==
    \E p \in {PumpLoop(channel, pumpTimeout, <<>>)} :
        /\ phase = "running"
        /\ channel' = p.rest
        /\ messages' = p.written
        /\ pumpTimeout' = p.timeout
        /\ phase' = IF p.exit THEN "exited" ELSE "running"
        /\ last' = [op |-> "pump", w |-> Len(p.written), ok |-> p.exit,
                    pre |-> [timeout |-> pumpTimeout, disconnected |-> p.disconnected]]
        /\ UNCHANGED connected

PumpNext ==
    \/ PlatformSend
    \/ Disconnect
    \/ GatherInitialProcesses
    \/ PumpEventsTick

SpecPump ==
    PumpInit /\ [][PumpNext /\ UNCHANGED <<columns, binVars, animVars, layoutVars, wmVars,
                                          entities, floating, focused, focusedId,
                                          strayFocus, skipReshuffle, ffmFlag,
                                          minimizedIds, cmdVars, dragVars, launchVars, bootVars, queueVars>>]_vars

\* C29 as stated: the timeout pump_events blocks with is 1 ms on the tick
\* after one in which an event was received, twice what it was (500 ms at
\* most) after a tick whose read was empty, and never more than 500 ms.
C29_TimeoutDoublesTo500 ==
    /\ pumpTimeout <= LOOP_MAX_TIMEOUT_MS
    /\ (last.op = "pump" /\ ~last.ok /\ last.w > 0) => pumpTimeout = 1
    /\ (last.op = "pump" /\ ~last.ok /\ last.w = 0 /\ last.pre.timeout > 0) =>
          pumpTimeout = Min(2 * last.pre.timeout, LOOP_MAX_TIMEOUT_MS)

\* C30 as stated: when Event::Exit is received or the channel is found
\* disconnected, by gather_initial_processes or by pump_events, AppExit is
\* written and the runner stops; the application neither runs on nor panics.
C30_ExitTerminates ==
    (last.op \in {"gather", "pump"} /\ (last.ok \/ last.pre.disconnected)) =>
        phase = "exited"

(***************************************************************************)
(* Claims about the FocusedMarker, under SpecFocus.                        *)
(***************************************************************************)
\* C31: a WindowFocused event for an id no Window entity has leaves a
\* StrayFocusEvent record and the focus as it was; when a Window with that
\* id is added the record is despawned and WindowFocused is written again,
\* and a WindowFocused event of an existing window puts the FocusedMarker
\* on it; a record whose Timeout finishes is despawned and the focus stays
\* as it was.
C31_StrayFocusRetried ==
    /\ (last.op = "WindowFocused" /\ last.w \notin entities) =>
            /\ last.w \in strayFocus
            /\ focused = last.pre.focused
    /\ (last.op = "WindowCreated" /\ last.w \in last.pre.stray) =>
            /\ last.w \in entities
            /\ last.w \notin strayFocus
            /\ Ev("WindowFocused", last.w) \in Range(messages)
    /\ (last.op = "WindowFocused" /\ last.w \in entities) => focused = {last.w}
    /\ (last.op = "timeout") =>
            /\ last.w \notin strayFocus
            /\ focused = last.pre.focused

\* The window of a waiting record was added and its focus event is written
\* again.
C31_Witness ==
    /\ last.op = "WindowCreated"
    /\ last.w \in last.pre.stray
    /\ Ev("WindowFocused", last.w) \in Range(messages)
    /\ last.w \notin focused

\* C36 as stated: a WindowDestroyed event for a window without the
\* FocusedMarker leaves the marker on the window that had it.
C36_DestroyKeepsFocus ==
    (/\ last.op = "WindowDestroyed"
     /\ last.pre.focused /= {}
     /\ last.w \notin last.pre.focused) =>
        focused = last.pre.focused

\* C37: at most one window carries the FocusedMarker after every event.
C37_OneFocusedWindow == Cardinality(focused) <= 1

\* A WindowFocused event of a window whose application is not frontmost has
\* taken the marker from another window.
C37_Witness ==
    /\ last.op = "WindowFocused"
    /\ ~last.ok
    /\ last.pre.focused /= {}
    /\ last.w \notin last.pre.focused
    /\ focused = {last.w}

(***************************************************************************)
(* Dragging a window with the mouse: mouse_dragged_trigger                 *)
(* (triggers.rs:175-224) in PreUpdate, then timeout_ticker and             *)
(* reposition_dragged_window (systems.rs:426-444, 1293-1310) in Update,    *)
(* in either order.  Time is counted in ticks.                             *)
(***************************************************************************)
DragWindows == {1, 2, 3}

\* DRAG_MARKER_TIMEOUT_MS in ticks.
DragTicks == 8

NoDrag == [entity |-> 0, elapsed |-> 0]

\* Timer::is_finished
DragFinished(m) == m.entity /= 0 /\ m.elapsed >= DragTicks

\* mouse_dragged_trigger for a MouseDragged event over window entity.
MouseDraggedTrigger(m, entity) ==
    IF m.entity /= 0
    THEN IF entity /= m.entity THEN [entity |-> entity, elapsed |-> 0] ELSE m
    ELSE [entity |-> entity, elapsed |-> 0]

\* timeout_ticker on the marker: the timer advances unless it has finished.
DragTicked(m) ==
    IF m.entity /= 0 /\ ~DragFinished(m) THEN [m EXCEPT !.elapsed = @ + 1] ELSE m

DragInit ==
    /\ dragMarker = NoDrag
    /\ StripIdle
    /\ BinIdle
    /\ AnimIdle
    /\ LayoutIdle
    /\ WMIdle
    /\ EventIdle
    /\ CmdIdle
    /\ PumpIdle
    /\ QueueIdle
    /\ BootIdle
    /\ LaunchIdle

\* The ticks in a row, this one included, in which no MouseDragged event
\* arrived; counted up to DragTicks + 1.
DragQuiet(dragged) ==
    IF dragged /= 0 THEN 0
    ELSE IF last.op = "drag" THEN Min(last.pre.quiet + 1, DragTicks + 1)
    ELSE 1

\* One tick: a MouseDragged event over the window `dragged` (0: no event),
\* then the Update schedule, in which timeout_ticker runs before
\* reposition_dragged_window or after it; the despawn of a finished marker
\* is applied when both have run.
DragTick ==
    \E dragged \in DragWindows \cup {0}, ticker_first \in BOOLEAN :
    \E m \in {IF dragged /= 0 THEN MouseDraggedTrigger(dragMarker, dragged)
              ELSE dragMarker} :
    \E seen \in {IF ticker_first THEN DragTicked(m) ELSE m} :
        /\ dragMarker' = IF DragFinished(m) THEN NoDrag ELSE DragTicked(m)
        /\ reshuffle' = IF DragFinished(seen) THEN {seen.entity} ELSE {}
        /\ last' = [op |-> "drag", w |-> dragged, ok |-> DragFinished(seen),
                    pre |-> [quiet |-> DragQuiet(dragged)]]

DragNext == DragTick

SpecDrag ==
    DragInit /\ [][DragNext /\ UNCHANGED <<columns, binVars, animVars, dock, edgePadding,
                                          clIn, clOut, wmVars, eventVars, cmdVars,
                                          pumpVars, launchVars, bootVars, queueVars>>]_vars

\* C32 as stated: the reshuffle that re-snaps a dragged window happens only
\* after the time of the marker (DragTicks, to the tick in which the marker
\* was spawned) has passed without a MouseDragged event, never in a tick in
\* which one arrived.
C32_ReshuffleAfterQuietSecond ==
    (last.op = "drag" /\ last.ok) =>
        /\ last.w = 0
        /\ last.pre.quiet >= DragTicks - 1

(***************************************************************************)
(* Claims about orphaned strips, under SpecWM.                             *)
(***************************************************************************)
\* The orphaned strips for which a display with a workspace of the same id
\* has appeared: a child strip with their id exists.
Returned(ss) ==
    {e \in DOMAIN ss :
        /\ ss[e].parent = 0
        /\ \E c \in DOMAIN ss : ss[c].parent /= 0 /\ ss[c].id = ss[e].id}

\* C33 as stated: an orphaned strip whose display (one that lists a workspace
\* of the same id) has appeared before its Timeout finished is attached
\* again, not despawned: no step takes it out of the world.
C33_ReturnedOrphanKept ==
    [][\A e \in Returned(strips) : e \in DOMAIN strips']_strips

(***************************************************************************)
(* Claims about expose_window, under SpecLayout.                           *)
(***************************************************************************)
\* C34: with a dock of offset d on the left or on the right of the display,
\* the frame expose_window computes for a window that is to be reshuffled
\* around does not reach into the dock: its min.x is at least
\* display.min.x + d for a dock on the left, its max.x at most
\* display.max.x - d for a dock on the right.
C34_ExposedBesideDock ==
    \A w \in reshuffle :
        LET fr == ExposeWindow(w) IN
        /\ dock.kind = "Left" => fr.x >= DisplayBounds.x + dock.offset
        /\ dock.kind = "Right" =>
                fr.x + fr.w <= DisplayBounds.x + DisplayBounds.w - dock.offset

\* C34 witness: a window is marked for the reshuffle whose frame, clamped to
\* the padding, would lie in the dock on the left.
C34_Witness ==
    \E w \in reshuffle :
        /\ dock.kind = "Left"
        /\ ExposeWindowPaddedOnly(w).x < DisplayBounds.x + dock.offset
        /\ ExposeWindow(w).x = DisplayBounds.x + dock.offset

(***************************************************************************)
(* A launched application: application_event_trigger                       *)
(* (triggers.rs:594-628) and spawn_window_trigger in PreUpdate, then the   *)
(* Update systems add_launched_process, add_launched_application,          *)
(* fresh_marker_cleanup and timeout_ticker (systems.rs:315-444).  The      *)
(* four systems are not ordered: each reads the world as the tick found    *)
(* it, and their commands are applied when all have run.  `launch` holds   *)
(* the process of the operating system (running, ready, the windows it     *)
(* lists) and the entities: proc and app with their FreshMarker and the    *)
(* ticks their Timeout has counted (-1: no Timeout), and the Window        *)
(* entities spawned under the Application.                                 *)
(***************************************************************************)
LaunchWindows == {1, 2}

\* PROCESS_READY_TIMEOUT_SEC and APP_OBSERVABLE_TIMEOUT_SEC, in ticks.
LaunchTicks == 3

NoEntity == [on |-> FALSE, fresh |-> FALSE, timer |-> -1]

\* commands.spawn((FreshMarker, timeout, ..))
FreshEntity == [on |-> TRUE, fresh |-> TRUE, timer |-> 0]

\* Timer::is_finished of the Timeout of entity e.
TimedOut(e) == e.on /\ e.timer >= LaunchTicks

\* fresh_marker_cleanup and timeout_ticker on an entity that stays: the
\* Timeout is removed when the entity was not fresh, and ticks otherwise.
Ticked(e) ==
    IF e.timer < 0 THEN e
    ELSE IF ~e.fresh THEN [e EXCEPT !.timer = -1]
    ELSE [e EXCEPT !.timer = @ + 1]

\* add_launched_application: whether the Application keeps its FreshMarker
\* and the windows it asks SpawnWindowTrigger to create.
AddLaunchedApplication(L) ==
    IF L.app.on /\ L.app.fresh /\ L.listed \ L.wins /= {}
    THEN [fresh |-> FALSE, create |-> L.listed \ L.wins]
    ELSE [fresh |-> L.app.fresh, create |-> {}]

\* add_launched_process: whether the process keeps its FreshMarker and
\* whether an Application is spawned under it; `observed` tells whether
\* new_application and observe succeed.
AddLaunchedProcess(L, observed) ==
    IF ~(L.proc.on /\ L.proc.fresh /\ L.ready)
    THEN [fresh |-> L.proc.fresh, spawn |-> FALSE]
    ELSE IF L.app.on THEN [fresh |-> FALSE, spawn |-> FALSE]
    ELSE [fresh |-> TRUE, spawn |-> observed]

\* One pass of the Update schedule over the world L.
LaunchUpdate(L, observed) ==
    LET p == AddLaunchedProcess(L, observed)
        a == AddLaunchedApplication(L)
    IN  IF TimedOut(L.proc)
        THEN [L EXCEPT !.proc = NoEntity, !.app = NoEntity, !.wins = {}]
        ELSE IF TimedOut(L.app)
        THEN [L EXCEPT !.proc = [Ticked(@) EXCEPT !.fresh = p.fresh],
                       !.app = NoEntity, !.wins = {}]
        ELSE [L EXCEPT !.proc = [Ticked(@) EXCEPT !.fresh = p.fresh],
                       !.app = IF @.on THEN [Ticked(@) EXCEPT !.fresh = a.fresh]
                               ELSE IF p.spawn THEN FreshEntity ELSE @,
                       !.wins = @ \cup a.create]

\* A tick: the world L the events of PreUpdate left, then Update.  `last`
\* remembers whether timeout_ticker left the Application alone in this tick
\* (it despawns it when its Timeout has finished), and what the tick found.
LaunchTickFrom(L, observed, event) ==
    /\ launch' = LaunchUpdate(L, observed)
    /\ last' = [op |-> "launch", w |-> event, ok |-> ~TimedOut(L.app), pre |-> L]

LaunchInit ==
    /\ LaunchIdle
    /\ StripIdle
    /\ BinIdle
    /\ AnimIdle
    /\ LayoutIdle
    /\ WMIdle
    /\ EventIdle
    /\ CmdIdle
    /\ PumpIdle
    /\ QueueIdle
    /\ BootIdle
    /\ DragIdle

\* Event::ApplicationLaunched for a process that is not known yet.
ApplicationLaunched ==
    /\ ~launch.running
    /\ ~launch.proc.on
    /\ \E ready, observed \in BOOLEAN :
        LaunchTickFrom([launch EXCEPT !.running = TRUE, !.ready = ready,
                                      !.proc = FreshEntity],
                       observed, "ApplicationLaunched")

\* Event::ApplicationTerminated: the process entity is despawned, and its
\* Application and their windows with it.
ApplicationTerminated ==
    /\ launch.running
    /\ \E observed \in BOOLEAN :
        LaunchTickFrom([launch EXCEPT !.running = FALSE, !.ready = FALSE, !.listed = {},
                                      !.proc = NoEntity, !.app = NoEntity, !.wins = {}],
                       observed, "ApplicationTerminated")

\* Process::ready turns true.
ProcessReady ==
    /\ launch.running
    /\ ~launch.ready
    /\ \E observed \in BOOLEAN :
        LaunchTickFrom([launch EXCEPT !.ready = TRUE], observed, "ready")

\* The application opens window w.  With `created`, Event::WindowCreated
\* arrives in this tick and spawn_window_trigger spawns the window under the
\* Application, if there is one.
WindowOpened ==
    /\ launch.running
    /\ \E w \in LaunchWindows \ launch.listed, created, observed \in BOOLEAN :
        LaunchTickFrom([launch EXCEPT !.listed = @ \cup {w},
                                      !.wins = IF created /\ launch.app.on
                                               THEN @ \cup {w} ELSE @],
                       observed, "WindowCreated")

\* A tick without events.
LaunchTick ==
    \E observed \in BOOLEAN : LaunchTickFrom(launch, observed, "none")

LaunchNext ==
    \/ ApplicationLaunched
    \/ ApplicationTerminated
    \/ ProcessReady
    \/ WindowOpened
    \/ LaunchTick

SpecLaunch ==
    LaunchInit /\ [][LaunchNext /\ UNCHANGED <<columns, binVars, animVars, layoutVars,
                                              wmVars, eventVars, cmdVars, pumpVars,
                                              dragVars, bootVars, queueVars>>]_vars

\* C35 as stated: an Application that was created for a launched process
\* and observed is never despawned through its launch Timeout: no tick finds
\* it with a finished timer.
C35_ObservedApplicationStays ==
    last.op = "launch" => last.ok

(***************************************************************************)
(* Claims about the membership of windows, under SpecWMFair: the systems   *)
(* of the Update schedule run again and again, while no event of the       *)
(* operating system is bound to happen.                                    *)
(***************************************************************************)
WMRest ==
    UNCHANGED <<columns, binVars, animVars, layoutVars, eventVars, cmdVars, pumpVars,
                dragVars, launchVars, bootVars, queueVars>>

SpecWMFair ==
    /\ SpecWM
    /\ WF_vars(TimeoutTicker /\ WMRest)
    /\ WF_vars(DoFindOrphanedWorkspaces /\ WMRest)

\* Window w is live and carries no Unmanaged marker.
Managed(w) == w \in DOMAIN unmanaged /\ unmanaged[w] = "None"

\* C38 as stated: every live window without Unmanaged marker is eventually
\* a member of exactly one strip (or is destroyed or unmanaged before).
C38_ManagedWindowInOneStrip ==
    \A w \in WMWindows :
        Managed(w) ~> (~Managed(w) \/ Occurrences(strips, DOMAIN strips, w) = 1)

(***************************************************************************)
(* The startup: add_existing_process, add_existing_application and         *)
(* finish_setup (systems.rs:144-301), chained in the Update schedule while *)
(* the Initializing resource exists (ecs.rs:56-63).  Each process that ran *)
(* before the program started has an entity that carries ExistingMarker    *)
(* ("process"), then an Application entity that carries it                 *)
(* ("application"), then none ("done").  What the platform answers for a   *)
(* process does not change: whether new_application succeeds (creates),    *)
(* whether observe does (observes), whether it has windows off screen that *)
(* a brute-force task has to find (offscreen).                             *)
(***************************************************************************)
BootProcesses == {1, 2, 3}

\* The processes that carry ExistingMarker themselves, in the order of the
\* query, up to the first one whose Application cannot be created.
RECURSIVE Creatable(_, _)
Creatable(procs, order) ==
    IF order = <<>> THEN {}
    ELSE IF ~procs[Head(order)].creates THEN {}
    ELSE {Head(order)} \cup Creatable(procs, Tail(order))

\* add_existing_process: the loop returns at the first process whose
\* Application cannot be created.
AddExistingProcess(B, order) ==
    [B EXCEPT !.procs =
        [p \in DOMAIN @ |->
            IF p \in Creatable(B.procs, order)
            THEN [@[p] EXCEPT !.state = "application"] ELSE @[p]]]

\* add_existing_application: every Application loses its ExistingMarker;
\* one that was observed and has windows off screen starts a task.
AddExistingApplication(B) ==
    [B EXCEPT
        !.procs = [p \in DOMAIN @ |->
                    IF @[p].state = "application" THEN [@[p] EXCEPT !.state = "done"]
                    ELSE @[p]],
        !.pending = @ \cup {p \in DOMAIN B.procs :
                                /\ B.procs[p].state = "application"
                                /\ B.procs[p].observes
                                /\ B.procs[p].offscreen}]

\* finish_setup
BootFinishSetup(B) ==
    IF \E p \in DOMAIN B.procs : B.procs[p].state /= "done" THEN B
    ELSE IF B.pending \cup B.returned /= {} THEN [B EXCEPT !.returned = {}]
    ELSE [B EXCEPT !.initializing = FALSE]

\* gather_initial_processes has spawned the processes.
BootInit ==
    /\ startup \in [initializing : {TRUE},
                    procs : [BootProcesses ->
                                [state : {"process"}, creates : BOOLEAN,
                                 observes : BOOLEAN, offscreen : BOOLEAN]],
                    pending : {{}}, returned : {{}}]
    /\ last = NoOp
    /\ columns = <<>>
    /\ BinIdle
    /\ AnimIdle
    /\ LayoutIdle
    /\ WMIdle
    /\ EventIdle
    /\ CmdIdle
    /\ PumpIdle
    /\ QueueIdle
    /\ DragIdle
    /\ LaunchIdle

\* One tick of the Update schedule during the startup; the query of
\* add_existing_process yields the processes in some order.  The two add_*
\* systems take Populated queries and are skipped when nothing carries the
\* marker.
BootTick ==
    /\ startup.initializing
    /\ \E order \in Perms({p \in BootProcesses : startup.procs[p].state = "process"}) :
       \E B1 \in {AddExistingProcess(startup, order)} :
       \E B2 \in {AddExistingApplication(B1)} :
        startup' = BootFinishSetup(B2)

\* The brute-force task of process p returns.
TaskReturns ==
    \E p \in startup.pending :
        startup' = [startup EXCEPT !.pending = @ \ {p}, !.returned = @ \cup {p}]

BootNext ==
    \/ BootTick
    \/ TaskReturns

BootRest ==
    UNCHANGED <<stripVars, binVars, animVars, layoutVars, wmVars, eventVars, cmdVars,
                pumpVars, dragVars, launchVars, queueVars>>

SpecBoot == BootInit /\ [][BootNext /\ BootRest]_vars

\* The schedule keeps running and every task returns.
SpecBootFair ==
    /\ SpecBoot
    /\ WF_vars(BootTick /\ BootRest)
    /\ WF_vars(TaskReturns /\ BootRest)

\* C39 as stated: the startup always completes; the Initializing resource
\* is removed after finitely many ticks once every brute-force task has
\* returned, also when the Application of a process cannot be created or
\* observed.
C39_StartupCompletes ==
    <>(~startup.initializing)

(***************************************************************************)
(* The delivery of commands: pump_events writes every event it drains      *)
(* from the channel to Messages<Event> (systems.rs:892-925), and a command *)
(* handler of the PreUpdate schedule (commands.rs:75-93) reads them with   *)
(* its own MessageReader through filter_window_operations                  *)
(* (commands.rs:95-110).  The handler modelled is command_move_focus       *)
(* (commands.rs:179-223), and "Focus" the kind of command it filters; the  *)
(* handlers of the other kinds read in the same way.  Messages<Event>      *)
(* keeps a message until its second update; an update happens at the      *)
(* start of a tick, though not necessarily of every tick.                  *)
(***************************************************************************)
QueueKinds == {"Focus", "Swap"}

\* The commands written over a behaviour.
MaxCommands == 4

\* What pump_events can drain in one tick.
Bursts == SeqsUpTo(QueueKinds, 3)

\* Messages::update: the messages written before the last update go.
MessagesUpdate(Q) == [Q EXCEPT !.dropped = Q.mark, !.mark = Len(Q.log)]

\* MessageWriter::write of the events in `burst`.
PumpWrites(Q, burst) ==
    [Q EXCEPT !.log = @ \o burst,
              !.runs = @ \o [i \in 1..Len(burst) |-> 0]]

\* The position of the first command of kind "Focus" after place c of the
\* log; 0 when there is none.
RECURSIVE NextFocus(_, _)
NextFocus(log, c) ==
    IF c >= Len(log) THEN 0
    ELSE IF log[c + 1] = "Focus" THEN c + 1
    ELSE NextFocus(log, c + 1)

\* command_move_focus: filter_window_operations(..).next() reads up to and
\* including the first Focus command the reader has not seen and that the
\* buffers still hold; that command is executed.
CommandMoveFocus(Q) ==
    LET found == NextFocus(Q.log, Max(Q.cursor, Q.dropped)) IN
    IF found = 0 THEN [Q EXCEPT !.cursor = Len(Q.log)]
    ELSE [Q EXCEPT !.cursor = found, !.runs[found] = @ + 1]

QueueInit ==
    /\ queue = [log |-> <<>>, dropped |-> 0, mark |-> 0, cursor |-> 0, runs |-> <<>>]
    /\ StripIdle
    /\ BinIdle
    /\ AnimIdle
    /\ LayoutIdle
    /\ WMIdle
    /\ EventIdle
    /\ CmdIdle
    /\ PumpIdle
    /\ DragIdle
    /\ LaunchIdle
    /\ BootIdle

\* One tick: the update of Messages<Event> if it is due, then the PreUpdate
\* schedule, in which pump_events and command_move_focus run in either
\* order.
QueueTick ==
    \E update, pump_first \in BOOLEAN, burst \in Bursts :
        /\ Len(queue.log) + Len(burst) <= MaxCommands
        /\ \E Q \in {IF update THEN MessagesUpdate(queue) ELSE queue} :
            queue' = IF pump_first THEN CommandMoveFocus(PumpWrites(Q, burst))
                     ELSE PumpWrites(CommandMoveFocus(Q), burst)

QueueNext == QueueTick

SpecQueue ==
    QueueInit /\ [][QueueNext /\ UNCHANGED <<stripVars, binVars, animVars, layoutVars,
                                            wmVars, eventVars, cmdVars, pumpVars, dragVars,
                                            launchVars, bootVars>>]_vars

====
